---- MODULE Spec2Model ----
(***************************************************************************)
(* The message-flow engine of cip-ws: the per-chat debounced turn buffer   *)
(* (BufferManager), the turn assembler, the policy cache (BotPolicy), the  *)
(* turn outbox watcher (TurnOutboxWatcherHub) and the subscriber hub       *)
(* (createWsHub) with its live ACL subscription (subscribeAllowed).        *)
(*                                                                         *)
(* Strings the code inspects (message bodies, finalizer words) are tuples  *)
(* of one-character strings, so that trim, toLowerCase and includes are    *)
(* computed.  Times are milliseconds as in the code.  TLC's integers are   *)
(* 32-bit, so the seconds/milliseconds threshold 10^10 of _pushAllowed is  *)
(* written 10^6 and the clock starts at 2 * 10^6 ms: a platform timestamp  *)
(* in seconds is below the threshold and a millisecond clock value above.  *)
(***************************************************************************)
EXTENDS Integers, Sequences, FiniteSets, TLC

\* ---------------------------------------------------------------- bounds
MaxMsgs == 2       \* inbound message events the platform delivers in a run
MaxTicks == 1      \* clock ticks of debounceMs in a run
MaxObs == 2        \* snapshot callbacks in flight at the same time
MaxDocs == 2       \* turn documents the store holds when the process starts
MaxTo == 3         \* characters of the recipient a send request names
MaxCalls == 2      \* POST /messages/send requests that reach the platform in a run
MaxItems == 3      \* items a buffer holds when its flush is due

\* ------------------------------------------------------ program constants
debounceMs == 30000
gcIdleMs == 30 * 60000
ttlMs == 60000
SMALL == 14
TsThreshold == 1000000
StartNow == 2 * TsThreshold

Accounts == {"a1"}
Labels == {"s1"}
Chats == {"c1", "x"}
NoEntry == [at |-> -1]
NoTimer == -1
CloseAclEmpty == 4403

\* ------------------------------------------------------------- strings
hola == <<"h", "o", "l", "a">>
okTxt == <<"O", "k">>
empty == <<>>
text14 == <<"a", "b", "c", "d", "e", "f", "g", "h", "i", "j", "k", "l", "m", "n">>
text15 == text14 \o <<"o">>
padded == <<" ", "O", "k", " ">>
atCUs == <<"@", "c", ".", "u", "s">>
mensajeListo == <<"M", "e", "n", "s", "a", "j", "e", " ", "l", "i", "s", "t", "o", ".">>

finalizerWords ==
    << <<"g", "r", "a", "c", "i", "a", "s">>,
       <<"s", "a", "l", "u", "d", "o", "s">>,
       <<"l", "i", "s", "t", "o">>,
       <<"y", "a", " ", "e", "n", "v", "i", "e">>,
       <<"o", "k">>,
       <<"v", "a">>,
       <<"p", "e", "r", "f", "e", "c", "t", "o">>,
       <<"q", "u", "e", "d", "o", " ", "a", "t", "e", "n", "t", "o">> >>

VOICE_TYPES == {<<"p", "t", "t">>, <<"a", "u", "d", "i", "o">>, <<"v", "o", "i", "c", "e">>}
chatType == <<"c", "h", "a", "t">>
pttType == <<"P", "T", "T">>

LowerChar(c) ==
    CASE c = "A" -> "a" [] c = "B" -> "b" [] c = "C" -> "c" [] c = "D" -> "d"
      [] c = "E" -> "e" [] c = "F" -> "f" [] c = "G" -> "g" [] c = "H" -> "h"
      [] c = "I" -> "i" [] c = "J" -> "j" [] c = "K" -> "k" [] c = "L" -> "l"
      [] c = "M" -> "m" [] c = "N" -> "n" [] c = "O" -> "o" [] c = "P" -> "p"
      [] c = "Q" -> "q" [] c = "R" -> "r" [] c = "S" -> "s" [] c = "T" -> "t"
      [] c = "U" -> "u" [] c = "V" -> "v" [] c = "W" -> "w" [] c = "X" -> "x"
      [] c = "Y" -> "y" [] c = "Z" -> "z" [] OTHER -> c

toLowerCase(s) == [i \in 1..Len(s) |-> LowerChar(s[i])]

IsSpace(c) == c = " "

RECURSIVE TrimLeft(_)
TrimLeft(s) == IF s # <<>> /\ IsSpace(Head(s)) THEN TrimLeft(Tail(s)) ELSE s

RECURSIVE TrimRight(_)
TrimRight(s) ==
    IF s # <<>> /\ IsSpace(s[Len(s)]) THEN TrimRight(SubSeq(s, 1, Len(s) - 1)) ELSE s

trim(s) == TrimRight(TrimLeft(s))

\* s.replace(/[^\d]/g, '')
IsDigit(c) == c \in {"0", "1", "2", "3", "4", "5", "6", "7", "8", "9"}

RECURSIVE Digits(_)
Digits(s) ==
    IF s = <<>> THEN <<>>
    ELSE IF IsDigit(Head(s)) THEN <<Head(s)>> \o Digits(Tail(s)) ELSE Digits(Tail(s))

includes(s, w) == \E i \in 1..(Len(s) - Len(w) + 1) : SubSeq(s, i, i + Len(w) - 1) = w

isFinalizer(text, words) ==
    LET s == toLowerCase(text)
    IN  IF s = <<>> THEN FALSE ELSE \E i \in 1..Len(words) : includes(s, words[i])

\* ---------------------------------------------------------------- state
VARIABLES
    now,          \* Date.now()
    nMsg,         \* number of message events emitted so far (their ids)
    seenOut,      \* an event that is no inbound message was emitted while a buffer
                  \* with an armed timer was held
    pushes,       \* BufferManager.push calls in flight: id -> [pc, evt, st, ts]
    heap,         \* buffer state objects { items, timer, openedAt, lastAt }, by id
    map,          \* BufferManager.map: key -> id of its state object, 0 when absent
    turns,        \* the store's turn documents: windowId -> document
    flushCount,   \* per windowId, the number of store writes flushKey made
    processed,    \* ids of the message events _pushAllowed ran for
    loopStore,    \* ids of the messages that came from a self id of the store
                  \* while the store said receiveFromBots = false
    loopView,     \* the same by the session view and self ids allowProcess used
    storeBot,     \* /accounts/{aid}/sessions/{label}.bot, raw
    storeWaIds,   \* the waId fields of the account's session docs
    storeChat,    \* per chat: botEnabled of settings/__root__ and of the thread doc
    readsFail,    \* the store rejects the reads the policy makes
    flipAt,       \* when a policy document of the store was written last
    sessCache, selfCache, chatCache,   \* BotPolicy's three caches
    states,       \* the session manager's states.get(key) of the session, "none" when unset
    started,      \* the watcher hubs whose start() has run
    watchers,     \* the hubs that hold a turn subscription of the session
    obs,          \* snapshot callbacks in flight: slot -> [pc, hub, doc, wa]
    nSent,        \* number of platform sends so far (the platform's message ids)
    epoch,        \* per windowId, how often the AI worker made the doc ready
    claims,       \* per <<windowId, epoch>>, the claim transactions that succeeded
    aborts,       \* per <<windowId, epoch>>, the claim transactions that gave up
    sends,        \* per <<windowId, epoch>>, the platform sends made for it
    denyStore,    \* the <<windowId, epoch>> whose chat had botEnabled = false in the
                  \* store when allowSend was answered
    denyView,     \* the same by the chat view allowSend used
    subs,         \* per hub, its onSnapshot listeners that were not unsubscribed
    dropped,      \* the session's last stopped, disconnected or destroyed event was
                  \* followed by no ready event
    dark,         \* the turns made ready since then
    nCalls,       \* number of client.sendMessage calls of sendText and sendMedia
    nEvtSent,     \* number of sent events emitted
    rcpt,         \* the recipient of the last POST /messages/send that reached
                  \* sendText: [to, chatId], the body's and the normalized one
    nClients,     \* the platform clients of the session that were created and not
                  \* destroyed
    nInitialize,  \* number of initialize() calls on the client the manager holds
    readyWait,    \* the ready handlers suspended at await registry.setReady
    lastEvt,      \* the type of the last lifecycle event the client emitted, "none"
                  \* for a client that has emitted none
    wsRole,       \* /accounts/a1/members/{uid}.role, "none" when there is none
    wsAcl,        \* the sessions of /accounts/a1/acl/{uid}
    wsDocs,       \* the ids of the docs of /accounts/a1/sessions
    conns,        \* the connections: id -> { state, accountId, allowed, extra }
    lsn,          \* per connection, the store listeners subscribeAllowed made
    got,          \* per connection, whether the hub's last push was sent to it
    others,       \* the established connections of conns the model does not follow
    beat          \* flips at every run of the heartbeat

bufVars == <<pushes, heap, map>>
policyVars == <<storeBot, storeWaIds, storeChat, readsFail, flipAt, sessCache, selfCache,
               chatCache>>
bufGhost == <<flushCount, processed, loopStore, loopView>>
outVars == <<states, started, watchers, obs, nSent, epoch, claims, aborts, sends>>
outGhost == <<denyStore, denyView>>
hubGhost == <<subs, dropped, dark>>
sessGhost == <<nCalls, nEvtSent, rcpt, nClients, nInitialize, readyWait, lastEvt>>
wsVars == <<wsRole, wsAcl, wsDocs, conns, lsn, got, others, beat>>
vars == <<now, nMsg, seenOut, pushes, heap, map, turns, flushCount,
          processed, loopStore, loopView, storeBot, storeWaIds, storeChat, readsFail, flipAt,
          sessCache, selfCache, chatCache,
          states, started, watchers, obs, nSent, epoch, claims, aborts, sends,
          denyStore, denyView, subs, dropped, dark,
          nCalls, nEvtSent, rcpt, nClients, nInitialize, readyWait, lastEvt,
          wsRole, wsAcl, wsDocs, conns, lsn, got, others, beat>>

\* ---------------------------------------------------------------- policy
\* BotPolicy: read-through caches with a ttl.
\* an entry is fresh up to and at the age of ttlMs: a variant C36 has to reject
_freshAtTtl(entry) == entry # NoEntry /\ (now - entry.at) <= ttlMs

_fresh(entry) == entry # NoEntry /\ (now - entry.at) < ttlMs

\* the data record _getSession builds from the session doc's bot field; a raw
\* field is "true", "false" or "undef", the mode "undef" or a mode
SessionData(bot) ==
    [enabled |-> bot.enabled # "false",
     receiveFromBots |-> bot.receiveFromBots = "true",
     mode |-> IF bot.mode = "undef" THEN "all" ELSE bot.mode,
     allowlist |-> bot.allowlist,
     blocklist |-> bot.blocklist]

\* a session doc without a bot field
NoBot == [enabled |-> "undef", receiveFromBots |-> "undef", mode |-> "undef",
          allowlist |-> <<>>, blocklist |-> <<>>]

\* the lookups answer with what they return, the cache entry they leave and how
\* the read went: "ok" (the cache was fresh or the store answered), "threw"
\* (the read was rejected and so is the lookup, which returns nothing: data is
\* a placeholder) or "empty" (the read was rejected and {} stands for the doc)
_getSession(cache) ==
    IF _fresh(cache) THEN [data |-> cache.data, cache |-> cache, read |-> "ok"]
    ELSE IF readsFail THEN [data |-> SessionData(NoBot), cache |-> cache, read |-> "threw"]
    ELSE LET data == SessionData(storeBot)
         IN  [data |-> data, cache |-> [at |-> now, data |-> data], read |-> "ok"]

\* typeof raw.botEnabled === 'boolean' ? raw.botEnabled : null
BotEnabledOf(raw) == IF raw \in {"true", "false"} THEN raw ELSE "null"

\* settings/__root__ is preferred, the thread doc is the fallback; "nodoc" is a
\* doc that does not exist, and data stays {} ("undef") when neither exists
ChatData(doc) ==
    IF doc.root # "nodoc" THEN [botEnabled |-> BotEnabledOf(doc.root)]
    ELSE IF doc.thread # "nodoc" THEN [botEnabled |-> BotEnabledOf(doc.thread)]
    ELSE [botEnabled |-> "undef"]

\* the reads are in a try whose catch sets data = {}; the entry is cached
_getChat(cache, chatId) ==
    IF _fresh(cache) THEN [data |-> cache.data, cache |-> cache, read |-> "ok"]
    ELSE LET data == IF readsFail THEN [botEnabled |-> "undef"]
                     ELSE ChatData(storeChat[chatId])
         IN  [data |-> data, cache |-> [at |-> now, data |-> data],
              read |-> IF readsFail THEN "empty" ELSE "ok"]

_getSelfWaIds(cache) ==
    IF _fresh(cache) THEN [waIds |-> cache.waIds, cache |-> cache, read |-> "ok"]
    ELSE IF readsFail THEN [waIds |-> {}, cache |-> cache, read |-> "threw"]
    ELSE [waIds |-> storeWaIds, cache |-> [at |-> now, waIds |-> storeWaIds], read |-> "ok"]

InList(list, x) == \E i \in 1..Len(list) : list[i] = x

ModeDenies(sess, chatId) ==
    \/ sess.mode = "allowlist" /\ Len(sess.allowlist) > 0 /\ ~InList(sess.allowlist, chatId)
    \/ sess.mode = "blocklist" /\ Len(sess.blocklist) > 0 /\ InList(sess.blocklist, chatId)

\* allowSend without its look at the chat: a variant C5 has to reject
allowSendNoChat(chatId) ==
    LET s == _getSession(sessCache)
        base == [allow |-> FALSE, sess |-> s.cache, chat |-> chatCache, read |-> "ok"]
    IN  IF ~s.data.enabled THEN base
        ELSE IF ModeDenies(s.data, chatId) THEN base
        ELSE [base EXCEPT !.allow = TRUE]

\* allowSend without the mode gates: a variant C23 has to reject
allowSendNoMode(chatId) ==
    LET s == _getSession(sessCache)
        base == [allow |-> FALSE, sess |-> s.cache, chat |-> chatCache, read |-> "ok"]
    IN  IF ~s.data.enabled THEN base
        ELSE LET c == _getChat(chatCache[chatId], chatId)
                 afterChat == [base EXCEPT !.chat = [chatCache EXCEPT ![chatId] = c.cache]]
             IN  IF c.data.botEnabled = "false" THEN afterChat
                 ELSE [afterChat EXCEPT !.allow = TRUE]

\* allowSend: the answer, and the two caches as the call leaves them
allowSend(chatId) ==
    LET s == _getSession(sessCache)
        base == [allow |-> FALSE, sess |-> s.cache, chat |-> chatCache, read |-> s.read]
    IN  IF s.read = "threw" THEN base
        ELSE IF ~s.data.enabled THEN base
        ELSE IF ModeDenies(s.data, chatId) THEN base
        ELSE LET c == _getChat(chatCache[chatId], chatId)
                 afterChat == [base EXCEPT !.chat = [chatCache EXCEPT ![chatId] = c.cache],
                                           !.read = c.read]
             IN  IF c.read = "threw" THEN afterChat
                 ELSE IF c.data.botEnabled = "false" THEN afterChat
                 ELSE [afterChat EXCEPT !.allow = TRUE]

\* allowProcess without its loop guard: a variant C6 has to reject
allowProcessNoGuard(chatId, senderWaId) ==
    LET r == allowSend(chatId)
    IN  [allow |-> r.allow, sess |-> r.sess, self |-> selfCache, chat |-> r.chat,
         read |-> r.read]

\* allowProcess: the answer, and the three caches as the call leaves them (a
\* lookup is made, and its cache filled, only when the code reaches it)
allowProcess(chatId, senderWaId) ==
    LET s == _getSession(sessCache)
        base == [allow |-> FALSE, sess |-> s.cache, self |-> selfCache,
                 chat |-> chatCache, read |-> s.read]
    IN  IF s.read = "threw" THEN base
        ELSE IF ~s.data.enabled THEN base
        ELSE LET guard == ~s.data.receiveFromBots /\ senderWaId # ""
                 w == _getSelfWaIds(selfCache)
                 afterSelf == IF guard THEN [base EXCEPT !.self = w.cache, !.read = w.read]
                              ELSE base
             IN  IF guard /\ w.read = "threw" THEN afterSelf
                 ELSE IF guard /\ senderWaId \in w.waIds THEN afterSelf
                 ELSE IF ModeDenies(s.data, chatId) THEN afterSelf
                 ELSE LET c == _getChat(chatCache[chatId], chatId)
                          afterChat == [afterSelf EXCEPT
                                          !.chat = [chatCache EXCEPT ![chatId] = c.cache],
                                          !.read = c.read]
                      IN  IF c.read = "threw" THEN afterChat
                          ELSE IF c.data.botEnabled = "false" THEN afterChat
                          ELSE [afterChat EXCEPT !.allow = TRUE]

\* ------------------------------------------------------------ assembler
TsOr0(it) == it.ts

\* an insertion that keeps the order of arrival: a variant C16 has to reject
InsertLast(sorted, it) == Append(sorted, it)

\* [...items].sort((a, b) => (a.ts || 0) - (b.ts || 0)): a stable sort
RECURSIVE InsertByTs(_, _)
InsertByTs(sorted, it) ==
    IF sorted = <<>> THEN <<it>>
    ELSE IF TsOr0(Head(sorted)) <= TsOr0(it)
         THEN <<Head(sorted)>> \o InsertByTs(Tail(sorted), it)
         ELSE <<it>> \o sorted

RECURSIVE SortByTs(_)
SortByTs(items) ==
    IF items = <<>> THEN <<>>
    ELSE InsertByTs(SortByTs(SubSeq(items, 1, Len(items) - 1)), items[Len(items)])

TextItem(ts, text) == [ts |-> ts, type |-> "text", text |-> text, uri |-> 0, mid |-> 0]

\* the loop without its flush of the short texts before an item that is no
\* text: a variant C17 has to reject
RECURSIVE MergeLoopOverVoice(_, _, _, _)
MergeLoopOverVoice(ordered, i, out, buf) ==
    IF i > Len(ordered) THEN [out |-> out, buf |-> buf]
    ELSE LET it == ordered[i]
             flushed == IF buf # <<>> THEN Append(out, TextItem(it.ts, buf)) ELSE out
         IN  IF it.type = "text"
             THEN LET t == trim(it.text)
                  IN  IF t = <<>> THEN MergeLoopOverVoice(ordered, i + 1, out, buf)
                      ELSE IF Len(t) <= SMALL
                           THEN MergeLoopOverVoice(ordered, i + 1, out,
                                                   IF buf # <<>> THEN buf \o <<" ">> \o t ELSE t)
                           ELSE MergeLoopOverVoice(ordered, i + 1,
                                                   Append(flushed, TextItem(it.ts, t)), <<>>)
             ELSE MergeLoopOverVoice(ordered, i + 1, Append(out, it), buf)

\* the loop of assembleTurn over ordered[i..]: out and the pending short texts buf
RECURSIVE MergeLoop(_, _, _, _)
MergeLoop(ordered, i, out, buf) ==
    IF i > Len(ordered) THEN [out |-> out, buf |-> buf]
    ELSE LET it == ordered[i]
             flushed == IF buf # <<>> THEN Append(out, TextItem(it.ts, buf)) ELSE out
         IN  IF it.type = "text"
             THEN LET t == trim(it.text)
                  IN  IF t = <<>> THEN MergeLoop(ordered, i + 1, out, buf)
                      ELSE IF Len(t) <= SMALL
                           THEN MergeLoop(ordered, i + 1, out,
                                          IF buf # <<>> THEN buf \o <<" ">> \o t ELSE t)
                           ELSE MergeLoop(ordered, i + 1,
                                          Append(flushed, TextItem(it.ts, t)), <<>>)
             ELSE MergeLoop(ordered, i + 1, Append(flushed, it), <<>>)

WindowIdOf(meta, openedAt) == <<meta.accountId, meta.label, meta.chatId, openedAt>>

\* assembleTurn, for a non-empty items (flushKey never calls it with none); the
\* explicit and lang hints, which no transition reads, are left out
assembleTurn(items, meta) ==
    LET ordered == SortByTs(items)
        openedAt == IF ordered[1].ts # 0 THEN ordered[1].ts ELSE now
        closedAt == IF ordered[Len(ordered)].ts # 0 THEN ordered[Len(ordered)].ts ELSE now
        m == MergeLoop(ordered, 1, <<>>, <<>>)
        out == IF m.buf # <<>> THEN Append(m.out, TextItem(closedAt, m.buf)) ELSE m.out
    IN  [windowId |-> WindowIdOf(meta, openedAt),
         openedAt |-> openedAt,
         closedAt |-> closedAt,
         meta |-> meta,
         lastInbound |-> IF out # <<>> THEN out[Len(out)].type ELSE "text",
         items |-> out]

\* -------------------------------------------------------- BufferManager
Keys == {<<a, l, c>> : a \in Accounts, l \in Labels, c \in Chats}
keyOf(meta) == <<meta.accountId, meta.label, meta.chatId>>
MetaOfKey(k) == [accountId |-> k[1], label |-> k[2], chatId |-> k[3]]

Drop(f, x) == [y \in (DOMAIN f) \ {x} |-> f[y]]

\* the state objects something still refers to: the map, a suspended push, or a
\* pending timer (a timer does not keep its object, but names it here)
Live(h, mp, ps) ==
    {o \in DOMAIN h : \/ \E k \in Keys : mp[k] = o
                      \/ \E m \in DOMAIN ps : ps[m].st = o
                      \/ h[o].timer # NoTimer}
Collect(h, mp, ps) == [o \in Live(h, mp, ps) |-> h[o]]

\* the timestamp as it comes, in whatever unit: a variant C24 has to reject
TsRawOfEvt(evt) == IF evt.waTimestamp # 0 THEN evt.waTimestamp ELSE now

\* const tsRaw = Number(evt.waTimestamp || Date.now());
\* const ts = tsRaw < 10_000_000_000 ? tsRaw * 1000 : tsRaw;
TsOfEvt(evt) ==
    LET tsRaw == IF evt.waTimestamp # 0 THEN evt.waTimestamp ELSE now
    IN  IF tsRaw < TsThreshold THEN tsRaw * 1000 ELSE tsRaw

IsVoice(evt) == evt.hasMedia /\ toLowerCase(evt.messageType) \in VOICE_TYPES

\* the end of _pushAllowed, from st.lastAt = ts on, for state object o of heap h.
\* The object records when its timer was armed last (at), whether with delay 0
\* (imm), and whether flushKey has taken it from the map (flushed); the code
\* keeps none of the three
PushTail(h, o, k, ts, text) ==
    LET st == h[o]
        wantsImmediate == text # <<>> /\ isFinalizer(text, finalizerWords)
        delay == IF wantsImmediate THEN 0 ELSE debounceMs
    IN  [h EXCEPT ![o] = [st EXCEPT !.lastAt = ts,
                                    !.openedAt = IF st.openedAt = 0 THEN ts ELSE st.openedAt,
                                    !.timer = now + delay,
                                    !.at = now,
                                    !.imm = wantsImmediate]]

\* _pushAllowed up to its await of saveInboundVoice, or to its end
_pushAllowed(m, evt) ==
    LET ts == TsOfEvt(evt)
        k == keyOf([accountId |-> evt.accountId, label |-> evt.sessionId,
                    chatId |-> evt.chatId])
        o == IF map[k] # 0 THEN map[k] ELSE m
        h1 == IF map[k] # 0 THEN heap
              ELSE heap @@ (m :> [key |-> k, items |-> <<>>, timer |-> NoTimer,
                                  openedAt |-> ts, lastAt |-> ts,
                                  at |-> 0, imm |-> FALSE, flushed |-> FALSE])
        text == trim(evt.body)
        h2 == IF text # <<>>
              THEN [h1 EXCEPT ![o].items =
                       Append(@, [ts |-> ts, type |-> "text", text |-> text,
                                  uri |-> 0, mid |-> m])]
              ELSE h1
    IN  /\ processed' = processed \cup {m}
        /\ IF IsVoice(evt)
           THEN /\ pushes' = [pushes EXCEPT ![m] = [pc |-> "media", evt |-> evt, st |-> o]]
                /\ heap' = h2
                /\ map' = map
           ELSE LET ps == Drop(pushes, m)
                    mp == [map EXCEPT ![k] = o]
                IN  /\ pushes' = ps
                    /\ map' = mp
                    /\ heap' = Collect(PushTail(h2, o, k, ts, text), mp, ps)

\* push without its test of fromMe: a variant C7 has to reject
pushOwn(evt) ==
    IF evt.accountId = "" \/ evt.sessionId = "" \/ evt.chatId = ""
    THEN UNCHANGED <<nMsg, pushes>>
    ELSE /\ nMsg' = nMsg + 1
         /\ pushes' = pushes @@ ((nMsg + 1) :> [pc |-> "policy",
                                               evt |-> [evt EXCEPT !.id = nMsg + 1],
                                               st |-> 0])

\* push: the synchronous part, which ends in the call of policy.allowProcess
push(evt) ==
    IF evt.fromMe \/ evt.accountId = "" \/ evt.sessionId = "" \/ evt.chatId = ""
    THEN UNCHANGED <<nMsg, pushes>>
    ELSE /\ nMsg' = nMsg + 1
         /\ pushes' = pushes @@ ((nMsg + 1) :> [pc |-> "policy",
                                               evt |-> [evt EXCEPT !.id = nMsg + 1],
                                               st |-> 0])

\* allowProcess resolves for push m, and .then runs _pushAllowed; or it
\* rejects, .catch logs and nothing is buffered
PushPolicy(m) ==
    /\ UNCHANGED <<outGhost, hubGhost, sessGhost, wsVars>>
    /\ m \in DOMAIN pushes
    /\ pushes[m].pc = "policy"
    /\ LET evt == pushes[m].evt
           r == allowProcess(evt.chatId, evt.chatId)
           viewRfb == _getSession(sessCache).data.receiveFromBots
           viewIds == _getSelfWaIds(selfCache).waIds
       IN  /\ sessCache' = r.sess
           /\ selfCache' = r.self
           /\ chatCache' = r.chat
           /\ loopStore' = IF storeBot.receiveFromBots # "true" /\ evt.chatId \in storeWaIds
                           THEN loopStore \cup {m} ELSE loopStore
           /\ loopView' = IF ~viewRfb /\ evt.chatId \in viewIds
                          THEN loopView \cup {m} ELSE loopView
           /\ IF r.allow THEN _pushAllowed(m, evt)
              ELSE /\ pushes' = Drop(pushes, m)
                   /\ UNCHANGED <<heap, map, processed>>
    /\ UNCHANGED <<now, nMsg, seenOut, turns, flushCount, storeBot, storeWaIds, storeChat,
                   readsFail, flipAt>>
    /\ UNCHANGED outVars

\* saveInboundVoice settles for push m (saved, or it threw), and _pushAllowed ends
PushMedia(m, saved) ==
    /\ UNCHANGED <<outGhost, hubGhost, sessGhost, wsVars>>
    /\ m \in DOMAIN pushes
    /\ pushes[m].pc = "media"
    /\ LET evt == pushes[m].evt
           o == pushes[m].st
           ts == TsOfEvt(evt)
           h1 == IF saved
                 THEN [heap EXCEPT ![o].items =
                          Append(@, [ts |-> ts, type |-> "voice", text |-> <<>>,
                                     uri |-> evt.id, mid |-> m])]
                 ELSE heap
           ps == Drop(pushes, m)
           mp == [map EXCEPT ![heap[o].key] = o]
       IN  /\ pushes' = ps
           /\ map' = mp
           /\ heap' = Collect(PushTail(h1, o, heap[o].key, ts, trim(evt.body)), mp, ps)
    /\ UNCHANGED <<now, nMsg, seenOut, turns, flushCount, processed, loopStore, loopView>>
    /\ UNCHANGED policyVars
    /\ UNCHANGED outVars

\* a response that is null, or has none of modality, text and audio.url
NoResponse == [modality |-> "undef", text |-> <<>>, url |-> FALSE]

PendingDoc(turn, srcs) ==
    [status |-> "pending", openedAt |-> turn.openedAt, closedAt |-> turn.closedAt,
     meta |-> turn.meta, lastInbound |-> turn.lastInbound, items |-> turn.items,
     response |-> NoResponse, waMessageId |-> 0, error |-> "null", srcs |-> srcs]

\* ref.set(fields, { merge: true }): the fields written replace the doc's
SetMerge(docs, w, doc) == IF w \in DOMAIN docs THEN [docs EXCEPT ![w] = doc] ELSE docs @@ (w :> doc)

Bump(f, w) == IF w \in DOMAIN f THEN [f EXCEPT ![w] = @ + 1] ELSE f @@ (w :> 1)


\* flushKey that takes the key from the map once the write has succeeded, and
\* keeps the buffer otherwise: a variant C30 has to reject
flushKeyAfterWrite(k, h, written) ==
    LET st == map[k]
    IN  IF st = 0 \/ h[st].items = <<>> \/ ~written
        THEN /\ heap' = Collect(h, map, pushes)
             /\ UNCHANGED <<map, turns, flushCount>>
        ELSE LET mp == [map EXCEPT ![k] = 0]
                 turn == assembleTurn(h[st].items, MetaOfKey(k))
                 srcs == {h[st].items[i].mid : i \in 1..Len(h[st].items)}
             IN  /\ map' = mp
                 /\ heap' = Collect([h EXCEPT ![st].flushed = TRUE], mp, pushes)
                 /\ turns' = SetMerge(turns, turn.windowId, PendingDoc(turn, srcs))
                 /\ flushCount' = Bump(flushCount, turn.windowId)

\* flushKey(k) on the buffer state h; written says whether ref.set succeeded
flushKey(k, h, written) ==
    LET st == map[k]
    IN  IF st = 0 \/ h[st].items = <<>>
        THEN /\ heap' = Collect(h, map, pushes)
             /\ UNCHANGED <<map, turns, flushCount>>
        ELSE LET mp == [map EXCEPT ![k] = 0]
                 turn == assembleTurn(h[st].items, MetaOfKey(k))
                 srcs == {h[st].items[i].mid : i \in 1..Len(h[st].items)}
             IN  /\ map' = mp
                 /\ heap' = Collect([h EXCEPT ![st].flushed = TRUE], mp, pushes)
                 /\ IF written
                    THEN /\ turns' = SetMerge(turns, turn.windowId, PendingDoc(turn, srcs))
                         /\ flushCount' = Bump(flushCount, turn.windowId)
                    ELSE UNCHANGED <<turns, flushCount>>

\* the timer st.timer of state object o fires: () => this.flushKey(k)
TimerFire(o, written) ==
    /\ UNCHANGED <<outGhost, hubGhost, sessGhost, wsVars>>
    /\ o \in DOMAIN heap
    /\ heap[o].timer # NoTimer
    /\ heap[o].timer <= now
    /\ flushKey(heap[o].key, [heap EXCEPT ![o].timer = NoTimer], written)
    /\ UNCHANGED <<now, nMsg, seenOut, pushes, processed, loopStore, loopView>>
    /\ UNCHANGED policyVars
    /\ UNCHANGED outVars

gcSweep ==
    LET idle == gcIdleMs
        dead == {k \in Keys : map[k] # 0 /\ heap[map[k]].lastAt # 0
                              /\ now - heap[map[k]].lastAt > idle}
        h == [o \in DOMAIN heap |->
                IF heap[o].key \in dead /\ map[heap[o].key] = o
                THEN [heap[o] EXCEPT !.timer = NoTimer] ELSE heap[o]]
        mp == [k \in Keys |-> IF k \in dead THEN 0 ELSE map[k]]
    IN  /\ map' = mp
        /\ heap' = Collect(h, mp, pushes)
        /\ UNCHANGED <<outGhost, hubGhost, sessGhost, wsVars>>
        /\ UNCHANGED <<now, nMsg, seenOut, pushes, turns, flushCount, processed,
                       loopStore, loopView>>
        /\ UNCHANGED policyVars
        /\ UNCHANGED outVars

\* ------------------------------------------------- TurnOutboxWatcherHub
Hubs == {1, 2}
Obs == 1..MaxObs
NoSend == [fn |-> "none", body |-> <<>>, voice |-> FALSE]
Idle == [pc |-> "idle", hub |-> 0, doc |-> <<>>, ep |-> 0, wa |-> 0,
         resp |-> NoResponse, sent |-> NoSend]

\* _ensureWatcher and _dropWatcher of the hubs hs, on the set ws of the hubs that
\* hold a subscription of the session
_ensureWatcher(ws, hs) == ws \cup hs
_dropWatcher(ws, hs) == ws \ hs

\* q.onSnapshot whatever the map holds: a variant C20 has to reject
SubscribedAlways(sb, ws, hs) == [h \in Hubs |-> IF h \in hs THEN sb[h] + 1 ELSE sb[h]]

\* the listeners after _ensureWatcher of the hubs hs: q.onSnapshot is called by
\* those whose map has no entry of the session
Subscribed(sb, ws, hs) ==
    [h \in Hubs |-> IF h \in hs /\ h \notin ws THEN sb[h] + 1 ELSE sb[h]]

\* the listeners after _dropWatcher of the hubs hs: w.unsub() of the map's entry
Unsubscribed(sb, ws, hs) ==
    [h \in Hubs |-> IF h \in hs /\ h \in ws THEN sb[h] - 1 ELSE sb[h]]

\* the started hubs' listener on the session manager's 'evt'
HubListener(evt) ==
    IF evt.accountId = "" \/ evt.sessionId = "" THEN UNCHANGED <<watchers, subs>>
    ELSE IF evt.type = "ready"
         THEN /\ watchers' = _ensureWatcher(watchers, started)
              /\ subs' = Subscribed(subs, watchers, started)
    ELSE IF evt.type \in {"stopped", "disconnected", "destroyed"}
         THEN /\ watchers' = _dropWatcher(watchers, started)
              /\ subs' = Unsubscribed(subs, watchers, started)
    ELSE UNCHANGED <<watchers, subs>>

\* what the event leaves of the turns made ready while the session is dropped
Tracked(evt) ==
    /\ dropped' = IF evt.type = "ready" THEN FALSE
                  ELSE IF evt.type \in {"stopped", "disconnected", "destroyed"} THEN TRUE
                  ELSE dropped
    /\ dark' = IF evt.type = "ready" THEN {} ELSE dark

\* initBot's listener on the session manager's 'evt'
BotListener(evt) ==
    IF evt.type # "message" THEN UNCHANGED <<nMsg, pushes>> ELSE push(evt)

\* ev.emit('evt', evt): every listener runs
emit(evt) ==
    /\ BotListener(evt)
    /\ HubListener(evt)
    /\ Tracked(evt)
    /\ nEvtSent' = IF evt.type = "sent" THEN nEvtSent + 1 ELSE nEvtSent
    /\ seenOut' = (seenOut \/ ((evt.type # "message" \/ evt.fromMe)
                                  /\ \E o \in DOMAIN heap : heap[o].timer # NoTimer))

Evt(type, chatId, fromMe, body, messageType, hasMedia, waTimestamp) ==
    [type |-> type, accountId |-> "a1", sessionId |-> "s1", id |-> 0, chatId |-> chatId,
     fromMe |-> fromMe, body |-> body, messageType |-> messageType,
     hasMedia |-> hasMedia, waTimestamp |-> waTimestamp]

LifecycleEvt(type) == Evt(type, "", FALSE, <<>>, <<>>, FALSE, 0)

HasClient == nClients > 0

\* ------------------------------------------------------ session manager
MsgShapes ==
    { [body |-> hola, messageType |-> chatType, hasMedia |-> FALSE],
      [body |-> okTxt, messageType |-> chatType, hasMedia |-> FALSE],
      [body |-> <<>>, messageType |-> pttType, hasMedia |-> TRUE] }

\* the platform timestamps (seconds) a message may carry: that of the clock, or
\* an old one (a message of the backlog)
WaTimestamps == {now \div 1000, 1}

\* new Client, bind (which sets the status; no event is emitted), clients.set
\* and client.initialize()
NewClient ==
    /\ states' = "starting"
    /\ nClients' = nClients + 1
    /\ nInitialize' = 1
    /\ lastEvt' = "none"
    /\ UNCHANGED readyWait

\* init without the test of clients.has(key): a variant C22 has to reject
initAlways == NewClient

\* init(meta): the client the manager holds is returned, or a new one is made
init == IF HasClient THEN UNCHANGED <<states, nClients, nInitialize, readyWait, lastEvt>> ELSE NewClient

\* POST /sessions/init
SessInit ==
    /\ UNCHANGED <<outGhost, hubGhost, nCalls, rcpt, nEvtSent, wsVars>>
    /\ init
    /\ UNCHANGED <<now, nMsg, seenOut, turns, started, watchers, obs, nSent, epoch,
                   claims, aborts, sends>>
    /\ UNCHANGED <<bufVars, bufGhost, policyVars>>

\* restoreAllFromFs(): init of the session when its auth directory is on disk
\* (inFs) and the manager holds no client of it
RestoreAllFromFs(inFs) ==
    /\ UNCHANGED <<outGhost, hubGhost, nCalls, rcpt, nEvtSent, wsVars>>
    /\ IF inFs /\ ~HasClient THEN init ELSE UNCHANGED <<states, nClients, nInitialize, readyWait, lastEvt>>
    /\ UNCHANGED <<now, nMsg, seenOut, turns, started, watchers, obs, nSent, epoch,
                   claims, aborts, sends>>
    /\ UNCHANGED <<bufVars, bufGhost, policyVars>>

\* client.on(type): qr, ready, disconnected, auth_failure, error
ClientEvt(type) ==
    /\ UNCHANGED <<outGhost, nCalls, rcpt, nClients, nInitialize, readyWait, wsVars>>
    /\ HasClient
    /\ lastEvt' = type
    /\ states' = (IF type = "qr" THEN "scanning" ELSE type)
    /\ emit(LifecycleEvt(type))
    /\ UNCHANGED <<now, heap, map, turns, started, obs, nSent, epoch, claims, aborts, sends>>
    /\ UNCHANGED <<bufGhost, policyVars>>

\* client.on('ready') of a client that knows its own id: selfIds is set and the
\* handler is suspended at await registry.setReady
ReadyBegin ==
    /\ HasClient
    /\ readyWait < MaxCalls
    /\ readyWait' = readyWait + 1
    /\ lastEvt' = "ready"
    /\ UNCHANGED <<now, nMsg, seenOut, turns, bufVars, bufGhost, policyVars, outVars,
                   outGhost, hubGhost, nCalls, nEvtSent, rcpt, nClients, nInitialize,
                   wsVars>>

\* registry.setReady settles: after the write (ok) the ready handler sets the
\* status and emits ready; when the write is rejected the handler ends there
ReadySettle(ok) ==
    /\ readyWait > 0
    /\ readyWait' = readyWait - 1
    /\ IF ok THEN /\ states' = "ready"
                  /\ emit(LifecycleEvt("ready"))
       ELSE UNCHANGED <<states, nMsg, pushes, watchers, subs, dropped, dark, nEvtSent,
                        seenOut>>
    /\ UNCHANGED <<outGhost, nCalls, rcpt, nClients, nInitialize, lastEvt, wsVars>>
    /\ UNCHANGED <<now, heap, map, turns, started, obs, nSent, epoch, claims, aborts, sends>>
    /\ UNCHANGED <<bufGhost, policyVars>>

\* stop(meta) and destroy(meta)
SessStop ==
    /\ UNCHANGED <<outGhost, nCalls, rcpt, wsVars>>
    /\ HasClient
    /\ nClients' = nClients - 1
    /\ nInitialize' = 0
    /\ UNCHANGED <<readyWait, lastEvt>>
    /\ states' = "stopped"
    /\ emit(LifecycleEvt("stopped"))
    /\ UNCHANGED <<now, heap, map, turns, started, obs, nSent, epoch, claims, aborts, sends>>
    /\ UNCHANGED <<bufGhost, policyVars>>

SessDestroy ==
    /\ UNCHANGED <<outGhost, nCalls, rcpt, wsVars>>
    /\ nClients' = IF HasClient THEN nClients - 1 ELSE nClients
    /\ nInitialize' = 0
    /\ UNCHANGED <<readyWait, lastEvt>>
    /\ states' = "none"
    /\ emit(LifecycleEvt("destroyed"))
    /\ UNCHANGED <<now, heap, map, turns, started, obs, nSent, epoch, claims, aborts, sends>>
    /\ UNCHANGED <<bufGhost, policyVars>>

\* client.on('message_create'): a message event, inbound or of the account itself
MessageCreate(chatId, fromMe, shape, waTimestamp) ==
    /\ UNCHANGED <<outGhost, nCalls, rcpt, nClients, nInitialize, readyWait, lastEvt, wsVars>>
    /\ HasClient
    /\ fromMe \/ nMsg < MaxMsgs
    /\ emit(Evt("message", chatId, fromMe, shape.body, shape.messageType,
                shape.hasMedia, waTimestamp))
    /\ UNCHANGED <<now, heap, map, turns, states, started, obs, nSent, epoch, claims, aborts, sends>>
    /\ UNCHANGED <<bufGhost, policyVars>>

\* hub.start(): watchers for the sessions that are ready, then the listener
HubStart(h) ==
    /\ UNCHANGED <<outGhost, dropped, dark, sessGhost, wsVars>>
    /\ h \notin started
    /\ started' = started \cup {h}
    /\ watchers' = IF states = "ready" THEN _ensureWatcher(watchers, {h}) ELSE watchers
    /\ subs' = IF states = "ready" THEN Subscribed(subs, watchers, {h}) ELSE subs
    /\ UNCHANGED <<now, nMsg, seenOut, turns, states, obs, nSent, epoch, claims, aborts, sends>>
    /\ UNCHANGED <<bufVars, bufGhost, policyVars>>

\* the query of hub h reports an error: the store ends the listener and calls
\* onSnapshot's error callback, which logs
SnapError(h) ==
    /\ UNCHANGED <<outGhost, dropped, dark, sessGhost, wsVars>>
    /\ subs[h] > 0
    /\ subs' = [subs EXCEPT ![h] = subs[h] - 1]
    /\ UNCHANGED <<now, nMsg, seenOut, turns, states, started, watchers, obs, nSent, epoch,
                   claims, aborts, sends>>
    /\ UNCHANGED <<bufVars, bufGhost, policyVars>>

Tick ==
    /\ UNCHANGED <<outGhost, hubGhost, sessGhost, wsVars>>
    /\ now < StartNow + MaxTicks * debounceMs
    /\ now' = now + debounceMs
    /\ UNCHANGED <<nMsg, seenOut, turns>>
    /\ UNCHANGED <<bufVars, bufGhost, policyVars, outVars>>

\* the clock advances by the ttl of the policy's caches
Lapse ==
    /\ UNCHANGED <<outGhost, hubGhost, sessGhost, wsVars>>
    /\ now < StartNow + MaxTicks * ttlMs
    /\ now' = now + ttlMs
    /\ UNCHANGED <<nMsg, seenOut, turns>>
    /\ UNCHANGED <<bufVars, bufGhost, policyVars, outVars>>

\* the clock advances by half the debounce delay
Advance ==
    /\ UNCHANGED <<outGhost, hubGhost, sessGhost, wsVars>>
    /\ now < StartNow + MaxTicks * debounceMs
    /\ now' = now + debounceMs \div 2
    /\ UNCHANGED <<nMsg, seenOut, turns>>
    /\ UNCHANGED <<bufVars, bufGhost, policyVars, outVars>>

\* ------------------------------------------------------------ the store
\* an administrator sets bot.receiveFromBots of the session doc
SetReceiveFromBots(v) ==
    /\ UNCHANGED <<outGhost, hubGhost, sessGhost, wsVars>>
    /\ storeBot.receiveFromBots # v
    /\ storeBot' = [storeBot EXCEPT !.receiveFromBots = v]
    /\ flipAt' = now
    /\ UNCHANGED <<now, nMsg, seenOut, turns, storeWaIds, storeChat, readsFail,
                   sessCache, selfCache, chatCache>>
    /\ UNCHANGED <<bufVars, bufGhost, outVars>>

\* registry.setReady of another session of the account writes its waId
RegisterWaId(w) ==
    /\ UNCHANGED <<outGhost, hubGhost, sessGhost, wsVars>>
    /\ w \notin storeWaIds
    /\ storeWaIds' = storeWaIds \cup {w}
    /\ flipAt' = now
    /\ UNCHANGED <<now, nMsg, seenOut, turns, storeBot, storeChat, readsFail,
                   sessCache, selfCache, chatCache>>
    /\ UNCHANGED <<bufVars, bufGhost, outVars>>

\* botEnabled of a chat's settings/__root__ doc is set
SetChatBotEnabled(c, v) ==
    /\ UNCHANGED <<outGhost, hubGhost, sessGhost, wsVars>>
    /\ storeChat[c].root # v
    /\ storeChat' = [storeChat EXCEPT ![c].root = v]
    /\ flipAt' = now
    /\ UNCHANGED <<now, nMsg, seenOut, turns, storeBot, storeWaIds, readsFail,
                   sessCache, selfCache, chatCache>>
    /\ UNCHANGED <<bufVars, bufGhost, outVars>>

\* the store starts or stops rejecting the reads of the policy
ReadFault(v) ==
    /\ UNCHANGED <<outGhost, hubGhost, sessGhost, wsVars>>
    /\ readsFail # v
    /\ readsFail' = v
    /\ UNCHANGED <<now, nMsg, seenOut, turns, storeBot, storeWaIds, storeChat, flipAt,
                   sessCache, selfCache, chatCache>>
    /\ UNCHANGED <<bufVars, bufGhost, outVars>>

\* ------------------------------------------------ the watcher's callback
\* the external AI worker answers a pending turn: pending -> ready
AiAnswer(w, resp) ==
    /\ UNCHANGED <<outGhost, subs, dropped, sessGhost, wsVars>>
    /\ w \in DOMAIN turns
    /\ turns[w].status = "pending"
    /\ dark' = IF dropped THEN dark \cup {w} ELSE dark
    /\ turns' = [turns EXCEPT ![w].status = "ready", ![w].response = resp]
    /\ epoch' = Bump(epoch, w)
    /\ UNCHANGED <<now, nMsg, seenOut, states, started, watchers, obs, nSent, claims, aborts, sends>>
    /\ UNCHANGED <<bufVars, bufGhost, policyVars>>

\* the AI worker answers with a text
AiWorker(w) == AiAnswer(w, [modality |-> "text", text |-> okTxt, url |-> FALSE])

\* the answers of the AI worker: modality text, voice or none; a text, a text
\* with blanks around it, or none (an empty one and a missing one are both <<>>);
\* with audio.url or without
Responses ==
    [modality : {"text", "voice", "undef"}, text : {okTxt, padded, <<>>}, url : BOOLEAN]

\* the query's snapshot listener of hub h is called with a change of doc w (added
\* or modified) whose data has status ready
Deliver(h, w, o) ==
    /\ UNCHANGED <<outGhost, hubGhost, sessGhost, wsVars>>
    /\ subs[h] > 0
    /\ w \in DOMAIN turns
    /\ turns[w].status = "ready"
    /\ obs[o].pc = "idle"
    /\ obs' = [obs EXCEPT ![o] = [pc |-> "claim", hub |-> h, doc |-> w,
                                  ep |-> epoch[w], wa |-> 0,
                                  resp |-> NoResponse, sent |-> NoSend]]
    /\ UNCHANGED <<now, nMsg, seenOut, turns, states, started, watchers, nSent, epoch,
                   claims, aborts, sends>>
    /\ UNCHANGED <<bufVars, bufGhost, policyVars>>

\* claimed.response || {}
ResponseOf(cur) == cur.response

\* the test with a doc in error taken again: a variant C19 has to reject
ClaimableAfterError(cur) == cur.status \in {"ready", "error"} /\ cur.waMessageId = 0

\* the test with a doc in sending taken again: a variant C3 has to reject
ClaimableAgain(cur) == cur.status \in {"ready", "sending"} /\ cur.waMessageId = 0

\* the claim transaction's test on the doc it read
Claimable(cur) == cur.status = "ready" /\ cur.waMessageId = 0

\* the claim made on the snapshot's data, without the transaction's read of the
\* doc: a variant C1 has to reject
ObsClaimFromSnapshot(o) ==
    /\ UNCHANGED <<outGhost, hubGhost, sessGhost, wsVars>>
    /\ obs[o].pc = "claim"
    /\ LET w == obs[o].doc
       IN  /\ turns' = [turns EXCEPT ![w].status = "sending"]
           /\ obs' = [obs EXCEPT ![o].pc = "policy", ![o].ep = epoch[w],
                                  ![o].resp = ResponseOf(turns[w])]
           /\ claims' = Bump(claims, <<w, epoch[w]>>)
    /\ UNCHANGED <<now, nMsg, seenOut, states, started, watchers, nSent, epoch, aborts, sends>>
    /\ UNCHANGED <<bufVars, bufGhost, policyVars>>

\* _processTurnDoc: db.runTransaction, and if (!claimed) return
ObsClaim(o) ==
    /\ UNCHANGED <<outGhost, hubGhost, sessGhost, wsVars>>
    /\ obs[o].pc = "claim"
    /\ LET w == obs[o].doc
       IN  IF Claimable(turns[w])
           THEN /\ turns' = [turns EXCEPT ![w].status = "sending"]
                /\ obs' = [obs EXCEPT ![o].pc = "policy", ![o].ep = epoch[w],
                                  ![o].resp = ResponseOf(turns[w])]
                /\ claims' = Bump(claims, <<w, epoch[w]>>)
                /\ UNCHANGED aborts
           ELSE /\ obs' = [obs EXCEPT ![o] = Idle]
                /\ aborts' = Bump(aborts, <<w, obs[o].ep>>)
                /\ UNCHANGED <<turns, claims>>
    /\ UNCHANGED <<now, nMsg, seenOut, states, started, watchers, nSent, epoch, sends>>
    /\ UNCHANGED <<bufVars, bufGhost, policyVars>>

\* _processTurnDoc from the validation of meta to the answer of policy.allowSend;
\* when allowSend rejects, _processTurnDoc does, the snapshot callback logs and
\* the turn stays as the claim left it
ObsPolicy(o) ==
    /\ UNCHANGED <<hubGhost, sessGhost, wsVars>>
    /\ obs[o].pc = "policy"
    /\ LET w == obs[o].doc
           meta == turns[w].meta
       IN  IF meta.accountId = "" \/ meta.label = "" \/ meta.chatId = ""
           THEN /\ turns' = [turns EXCEPT ![w].status = "error", ![w].error = "validate"]
                /\ obs' = [obs EXCEPT ![o] = Idle]
                /\ UNCHANGED <<sessCache, chatCache, denyStore, denyView>>
           ELSE LET r == allowSend(meta.chatId)
                    d == <<w, obs[o].ep>>
                    inStore == ChatData(storeChat[meta.chatId]).botEnabled = "false"
                    inView == _getChat(chatCache[meta.chatId], meta.chatId).data.botEnabled
                                 = "false"
                IN  /\ sessCache' = r.sess
                    /\ chatCache' = r.chat
                    /\ denyStore' = IF inStore THEN denyStore \cup {d} ELSE denyStore
                    /\ denyView' = IF inView THEN denyView \cup {d} ELSE denyView
                    /\ IF r.read = "threw"
                       THEN /\ obs' = [obs EXCEPT ![o] = Idle]
                            /\ UNCHANGED turns
                       ELSE IF r.allow
                       THEN /\ obs' = [obs EXCEPT ![o].pc = "send"]
                            /\ UNCHANGED turns
                       ELSE /\ turns' = [turns EXCEPT ![w].status = "skipped",
                                                      ![w].error = "null"]
                            /\ obs' = [obs EXCEPT ![o] = Idle]
    /\ UNCHANGED <<now, nMsg, seenOut, states, started, watchers, nSent, epoch, claims, aborts, sends>>
    /\ UNCHANGED <<bufVars, bufGhost, storeBot, storeWaIds, storeChat, readsFail, flipAt,
                   selfCache>>

\* the null normalizeChatId returns; no chat id is the empty string
NullId == <<>>

NoRcpt == [to |-> <<>>, chatId |-> NullId]

\* the recipient as it comes, unless it is blank: a variant C25 has to reject
asGiven(to) == IF trim(to) = <<>> THEN NullId ELSE to

\* normalizeChatId(to) of lib/session/contacts.js
normalizeChatId(to) ==
    LET s == trim(to)
    IN  IF s = <<>> THEN NullId
        ELSE IF includes(s, <<"@">>) THEN s
        ELSE IF Digits(s) # <<>> THEN Digits(s) \o atCUs
        ELSE NullId

\* a client is enough, whatever its status: a variant C21 has to reject
getClient == HasClient

\* getReadyClient: a client exists and its status is ready
getReadyClient == HasClient /\ states = "ready"

\* a send that is a text whatever the modality: a variant C18 has to reject
SendOfText(response) ==
    [fn |-> "sendText",
     body |-> IF trim(response.text) # <<>> THEN trim(response.text) ELSE mensajeListo,
     voice |-> FALSE]

\* the send _processTurnDoc makes for the response it claimed
SendOf(response) ==
    IF response.modality = "voice" /\ response.url
    THEN [fn |-> "sendMedia", body |-> trim(response.text), voice |-> TRUE]
    ELSE [fn |-> "sendText",
          body |-> IF trim(response.text) # <<>> THEN trim(response.text) ELSE mensajeListo,
          voice |-> FALSE]

\* sessions.sendText or sessions.sendMedia settles: with a ready client
\* client.sendMessage is called; the platform took the message (sentOk) and the
\* sent event is emitted, or the call threw and the catch writes the error
ObsSend(o, sentOk) ==
    /\ UNCHANGED <<outGhost, nClients, nInitialize, readyWait, lastEvt, wsVars>>
    /\ obs[o].pc = "send"
    /\ nCalls' = IF getReadyClient THEN nCalls + 1 ELSE nCalls
    /\ UNCHANGED rcpt
    /\ LET w == obs[o].doc
       IN  IF getReadyClient /\ sentOk
           THEN /\ nSent' = nSent + 1
                /\ sends' = Bump(sends, <<w, obs[o].ep>>)
                /\ emit(Evt("sent", turns[w].meta.chatId, TRUE, <<>>, chatType, FALSE, 0))
                /\ obs' = [obs EXCEPT ![o].pc = "mark", ![o].wa = nSent + 1,
                                       ![o].sent = SendOf(obs[o].resp)]
                /\ UNCHANGED turns
           ELSE /\ turns' = [turns EXCEPT ![w].status = "error", ![w].error = "send"]
                /\ obs' = [obs EXCEPT ![o] = Idle]
                /\ UNCHANGED <<nSent, sends, nMsg, pushes, watchers, seenOut>>
                /\ UNCHANGED <<hubGhost, nEvtSent>>
    /\ UNCHANGED <<now, heap, map, states, started, epoch, claims, aborts>>
    /\ UNCHANGED <<bufGhost, policyVars>>

\* the recipients a request may name: up to MaxTo characters
ToChars == {"5", "7", "a", "@", " "}
RECURSIVE StringsUpTo(_)
StringsUpTo(n) ==
    IF n = 0 THEN {<<>>}
    ELSE LET shorter == StringsUpTo(n - 1)
         IN  shorter \cup {Append(s, c) : s \in shorter, c \in ToChars}

\* POST /messages/send with a text: 400 without a recipient, 409 when the
\* session is not ready; else sendText, which throws on a recipient that
\* normalizes to null, calls the platform (sentOk: it took the message) and
\* emits the sent event
ApiSend(to, sentOk) ==
    /\ UNCHANGED <<outGhost, nClients, nInitialize, readyWait, lastEvt, wsVars>>
    /\ nCalls < MaxCalls
    /\ to # <<>>
    /\ states = "ready"
    /\ getReadyClient
    /\ LET chatId == normalizeChatId(to)
       IN  /\ rcpt' = [to |-> to, chatId |-> chatId]
           /\ IF chatId = NullId
              THEN UNCHANGED <<nCalls, nSent, nEvtSent, nMsg, pushes, watchers, seenOut,
                               hubGhost>>
              ELSE /\ nCalls' = nCalls + 1
                   /\ IF sentOk
                      THEN /\ nSent' = nSent + 1
                           /\ emit(Evt("sent", chatId, TRUE, okTxt, chatType, FALSE, 0))
                      ELSE UNCHANGED <<nSent, nEvtSent, nMsg, pushes, watchers, seenOut,
                                       hubGhost>>
    /\ UNCHANGED <<now, heap, map, turns, states, started, obs, epoch, claims, aborts, sends>>
    /\ UNCHANGED <<bufGhost, policyVars>>

\* ref.update({ status: 'delivered', deliveredAt, waMessageId, error: null })
ObsMark(o) ==
    /\ UNCHANGED <<outGhost, hubGhost, sessGhost, wsVars>>
    /\ obs[o].pc = "mark"
    /\ turns' = [turns EXCEPT ![obs[o].doc].status = "delivered",
                              ![obs[o].doc].waMessageId = obs[o].wa,
                              ![obs[o].doc].error = "null"]
    /\ obs' = [obs EXCEPT ![o] = Idle]
    /\ UNCHANGED <<now, nMsg, seenOut, states, started, watchers, nSent, epoch, claims, aborts, sends>>
    /\ UNCHANGED <<bufVars, bufGhost, policyVars>>

\* the process stops and starts again: the memory is lost, the store is kept
Crash ==
    /\ UNCHANGED <<outGhost, dropped, dark, nCalls, rcpt, nEvtSent, wsVars>>
    /\ nClients' = 0
    /\ nInitialize' = 0
    /\ readyWait' = 0
    /\ lastEvt' = "none"
    /\ subs' = [h \in Hubs |-> 0]
    /\ pushes' = <<>>
    /\ heap' = <<>>
    /\ map' = [k \in Keys |-> 0]
    /\ sessCache' = NoEntry
    /\ selfCache' = NoEntry
    /\ chatCache' = [c \in Chats |-> NoEntry]
    /\ states' = "none"
    /\ started' = {}
    /\ watchers' = {}
    /\ obs' = [o \in Obs |-> Idle]
    /\ UNCHANGED <<now, nMsg, seenOut, turns, nSent, epoch, claims, aborts, sends,
                   storeBot, storeWaIds, storeChat, readsFail, flipAt>>
    /\ UNCHANGED bufGhost

\* ----------------------------------------------- createRbac, createWsHub
ConnIds == {1, 2}
maxConnections == 2000
WsSessions == {"s1", "s2"}

\* conn.extra: an absent list and an empty one are both <<>> (canSee tests their
\* length only); fromMe is "true", "false" or "undef"
NoExtra == [null |-> TRUE, types |-> <<>>, chats |-> <<>>, fromMe |-> "undef"]
\* alive is conn.alive; pinged says that a ping was sent on the connection and
\* no pong has come since, and asked is the sessions list of the last subscribe
\* message that had one (the code keeps neither)
NoConn == [state |-> "none", accountId |-> "", allowed |-> {}, extra |-> NoExtra,
           code |-> 0, reason |-> "", alive |-> FALSE, pinged |-> FALSE, asked |-> <<>>]
NoListeners == [member |-> "off", acl |-> "off", sess |-> "off", leak |-> "off"]

\* the events the session manager emits, as the hub sees them; an event of the
\* lifecycle has no chatId ("") and no fromMe ("undef")
WsEvents ==
    {[type |-> "message", accountId |-> "a1", sessionId |-> l, chatId |-> "c1", fromMe |-> f] :
        l \in WsSessions, f \in {"true", "false"}}
    \cup {[type |-> "ready", accountId |-> "a1", sessionId |-> l, chatId |-> "", fromMe |-> "undef"] :
        l \in WsSessions}
    \cup {[type |-> "message", accountId |-> "a2", sessionId |-> "s1", chatId |-> "c1",
           fromMe |-> "false"]}

\* the filters of the subscribe messages a client sends
SubFilters ==
    { [sessions |-> <<"s2", "s3">>, types |-> <<"message">>, chats |-> <<>>, fromMe |-> "undef"],
      [sessions |-> <<>>, types |-> <<>>, chats |-> <<"c1">>, fromMe |-> "false"],
      [sessions |-> <<"s1">>, types |-> <<>>, chats |-> <<>>, fromMe |-> "undef"] }

\* rbac.allowedSessions(accountId, uid)
allowedSessions ==
    IF wsRole = "none" THEN [role |-> "none", sessions |-> {}]
    ELSE IF wsRole = "Administrator" THEN [role |-> wsRole, sessions |-> wsDocs]
    ELSE [role |-> wsRole, sessions |-> wsAcl]

\* canSee without its test of the account: a variant C8 has to reject
canSeeAnyAccount(c, evt) ==
    IF evt.sessionId \notin c.allowed THEN FALSE
    ELSE IF c.extra.null THEN TRUE
    ELSE IF Len(c.extra.types) > 0 /\ ~InList(c.extra.types, evt.type) THEN FALSE
    ELSE IF c.extra.fromMe \in {"true", "false"} /\ evt.fromMe # c.extra.fromMe THEN FALSE
    ELSE IF Len(c.extra.chats) > 0 /\ ~InList(c.extra.chats, evt.chatId) THEN FALSE
    ELSE TRUE

canSee(c, evt) ==
    IF evt.accountId # c.accountId THEN FALSE
    ELSE IF evt.sessionId \notin c.allowed THEN FALSE
    ELSE IF c.extra.null THEN TRUE
    ELSE IF Len(c.extra.types) > 0 /\ ~InList(c.extra.types, evt.type) THEN FALSE
    ELSE IF c.extra.fromMe \in {"true", "false"} /\ evt.fromMe # c.extra.fromMe THEN FALSE
    ELSE IF Len(c.extra.chats) > 0 /\ ~InList(c.extra.chats, evt.chatId) THEN FALSE
    ELSE TRUE

\* the callback without its close of an emptied connection: a variant C10 has to
\* reject
AclCallbackNoClose(c, sessions) == [c EXCEPT !.allowed = sessions]

\* the callback createWsHub gives to subscribeAllowed, on connection record c
AclCallback(c, sessions) ==
    LET c1 == [c EXCEPT !.allowed = sessions]
    IN  IF sessions = {} /\ c.state = "open"
        THEN [c1 EXCEPT !.state = "closing", !.code = CloseAclEmpty, !.reason = "ACL empty"]
        ELSE c1

\* a change of what a listener watches: a snapshot is due if it is registered
Notify(l) == IF l = "off" THEN "off" ELSE "pending"

\* what the member listener does with the listeners of the previous role:
\* unsubAcl(); unsubSessions = () => {}
CleanOld(l) ==
    [l EXCEPT !.acl = "off",
              !.sess = "off",
              !.leak = IF l.sess = "off" THEN l.leak
                       ELSE IF "pending" \in {l.sess, l.leak} THEN "pending" ELSE "idle"]

\* conns.size: a connection is in the set from the callback of handleUpgrade
\* to its close event
Established == {c \in ConnIds : conns[c].state \in {"open", "closing"}}
size == others + Cardinality(Established)

\* server.on('upgrade') up to its await of rbac.allowedSessions
WsUpgrade(c) ==
    /\ conns[c].state = "none"
    /\ LET initial == allowedSessions
       IN  IF size >= maxConnections \/ initial.role = "none" THEN UNCHANGED conns
           ELSE conns' = [conns EXCEPT ![c] = [NoConn EXCEPT !.state = "upgrading",
                                                            !.accountId = "a1",
                                                            !.allowed = initial.sessions]]
    /\ UNCHANGED <<wsRole, wsAcl, wsDocs, lsn, got>>
    /\ UNCHANGED <<now, nMsg, seenOut, turns, bufVars, bufGhost, policyVars, outVars, outGhost, hubGhost,
                 sessGhost, others, beat>>

\* the callback of wss.handleUpgrade: the connection, its subscription, hello
WsHandleUpgrade(c) ==
    /\ conns[c].state = "upgrading"
    /\ conns' = [conns EXCEPT ![c].state = "open", ![c].alive = TRUE]
    /\ lsn' = [lsn EXCEPT ![c].member = "pending"]
    /\ UNCHANGED <<wsRole, wsAcl, wsDocs, got>>
    /\ UNCHANGED <<now, nMsg, seenOut, turns, bufVars, bufGhost, policyVars, outVars, outGhost, hubGhost,
                 sessGhost, others, beat>>

\* subscribeAllowed: the snapshot listener of the member doc
MemberSnap(c) ==
    /\ lsn[c].member = "pending"
    /\ LET l == [CleanOld(lsn[c]) EXCEPT !.member = "idle"]
       IN  IF wsRole = "none"
           THEN /\ lsn' = [lsn EXCEPT ![c] = l]
                /\ conns' = [conns EXCEPT ![c] = AclCallback(@, {})]
           ELSE IF wsRole = "Administrator"
           THEN /\ lsn' = [lsn EXCEPT ![c] = [l EXCEPT !.sess = "pending"]]
                /\ UNCHANGED conns
           ELSE /\ lsn' = [lsn EXCEPT ![c] = [l EXCEPT !.acl = "pending"]]
                /\ UNCHANGED conns
    /\ UNCHANGED <<wsRole, wsAcl, wsDocs, got>>
    /\ UNCHANGED <<now, nMsg, seenOut, turns, bufVars, bufGhost, policyVars, outVars, outGhost, hubGhost,
                 sessGhost, others, beat>>

\* subscribeAllowed: the snapshot listener of the acl doc
AclSnap(c) ==
    /\ lsn[c].acl = "pending"
    /\ lsn' = [lsn EXCEPT ![c].acl = "idle"]
    /\ conns' = [conns EXCEPT ![c] = AclCallback(@, wsAcl)]
    /\ UNCHANGED <<wsRole, wsAcl, wsDocs, got>>
    /\ UNCHANGED <<now, nMsg, seenOut, turns, bufVars, bufGhost, policyVars, outVars, outGhost, hubGhost,
                 sessGhost, others, beat>>

\* subscribeAllowed: the snapshot listener of the sessions collection that
\* unsubSessions refers to (which = "sess"), or one of those it no longer refers
\* to (which = "leak")
SessionsSnap(c, which) ==
    /\ lsn[c][which] = "pending"
    /\ lsn' = [lsn EXCEPT ![c][which] = "idle"]
    /\ conns' = [conns EXCEPT ![c] = AclCallback(@, wsDocs)]
    /\ UNCHANGED <<wsRole, wsAcl, wsDocs, got>>
    /\ UNCHANGED <<now, nMsg, seenOut, turns, bufVars, bufGhost, policyVars, outVars, outGhost, hubGhost,
                 sessGhost, others, beat>>

\* ws.on('message') with a subscribe message of filters f
Subscribe(c, f) ==
    /\ conns[c].state = "open"
    /\ LET narrowed == IF Len(f.sessions) > 0
                       THEN {f.sessions[i] : i \in 1..Len(f.sessions)} \cap conns[c].allowed
                       ELSE conns[c].allowed
       IN  conns' = [conns EXCEPT ![c].allowed = narrowed,
                                  ![c].asked = IF Len(f.sessions) > 0 THEN f.sessions ELSE @,
                                  ![c].extra = [null |-> FALSE, types |-> f.types,
                                                chats |-> f.chats, fromMe |-> f.fromMe]]
    /\ UNCHANGED <<wsRole, wsAcl, wsDocs, lsn, got>>
    /\ UNCHANGED <<now, nMsg, seenOut, turns, bufVars, bufGhost, policyVars, outVars, outGhost, hubGhost,
                 sessGhost, others, beat>>

\* the peer starts the closing handshake: readyState is CLOSING
WsPeerClose(c) ==
    /\ conns[c].state = "open"
    /\ conns' = [conns EXCEPT ![c].state = "closing"]
    /\ UNCHANGED <<wsRole, wsAcl, wsDocs, lsn, got>>
    /\ UNCHANGED <<now, nMsg, seenOut, turns, bufVars, bufGhost, policyVars, outVars, outGhost, hubGhost,
                 sessGhost, others, beat>>

\* ws.on('close'): conns.delete(conn) and conn.unsub().  The hub no longer refers
\* to the connection object, so what a listener that is still registered does to
\* it is not kept: the record keeps the close code only
WsClose(c) ==
    /\ conns[c].state \in {"open", "closing"}
    /\ conns' = [conns EXCEPT ![c] = [NoConn EXCEPT !.state = "closed",
                                                    !.code = conns[c].code,
                                                    !.reason = conns[c].reason]]
    /\ lsn' = [lsn EXCEPT ![c] = NoListeners]
    /\ UNCHANGED <<wsRole, wsAcl, wsDocs, got>>
    /\ UNCHANGED <<now, nMsg, seenOut, turns, bufVars, bufGhost, policyVars, outVars, outGhost, hubGhost,
                 sessGhost, others, beat>>

\* ws.on('pong'): the peer answers the ping
Pong(c) ==
    /\ conns[c].state = "open"
    /\ conns[c].pinged
    /\ conns' = [conns EXCEPT ![c].alive = TRUE, ![c].pinged = FALSE]
    /\ UNCHANGED <<wsRole, wsAcl, wsDocs, lsn, got>>
    /\ UNCHANGED <<now, nMsg, seenOut, turns, bufVars, bufGhost, policyVars, outVars, outGhost, hubGhost,
                 sessGhost, others, beat>>

\* what ws.terminate(), conns.delete(c) and c.unsub() leave of connection c
Terminated(c) == [NoConn EXCEPT !.state = "closed", !.reason = "terminate"]

\* a heartbeat that pings and leaves conn.alive as it is: a variant C32 has to
\* reject
HeartbeatKeepAlive ==
    /\ beat' = ~beat
    /\ conns' = [c \in ConnIds |->
                    IF c \in Established
                    THEN [conns[c] EXCEPT !.pinged = @ \/ conns[c].state = "open"]
                    ELSE conns[c]]
    /\ UNCHANGED <<wsRole, wsAcl, wsDocs, lsn, got>>
    /\ UNCHANGED <<now, nMsg, seenOut, turns, bufVars, bufGhost, policyVars, outVars, outGhost, hubGhost,
                 sessGhost, others>>

\* the callback of setInterval(..., 30000): a connection that is not alive is
\* terminated, deleted and unsubscribed; the others are marked and pinged (the
\* ping throws on a connection that is not open)
Heartbeat ==
    /\ beat' = ~beat
    /\ conns' = [c \in ConnIds |->
                    IF c \notin Established THEN conns[c]
                    ELSE IF ~conns[c].alive THEN Terminated(c)
                    ELSE [conns[c] EXCEPT !.alive = FALSE,
                                          !.pinged = @ \/ conns[c].state = "open"]]
    /\ lsn' = [c \in ConnIds |->
                  IF c \in Established /\ ~conns[c].alive THEN NoListeners ELSE lsn[c]]
    /\ UNCHANGED <<wsRole, wsAcl, wsDocs, got>>
    /\ UNCHANGED <<now, nMsg, seenOut, turns, bufVars, bufGhost, policyVars, outVars, outGhost, hubGhost,
                 sessGhost, others>>

\* push(evt), the hub's listener on the session manager's 'evt'
wsPush(evt) ==
    /\ got' = [c \in ConnIds |-> conns[c].state = "open" /\ canSee(conns[c], evt)]
    /\ UNCHANGED <<wsRole, wsAcl, wsDocs, conns, lsn>>
    /\ UNCHANGED <<now, nMsg, seenOut, turns, bufVars, bufGhost, policyVars, outVars, outGhost, hubGhost,
                 sessGhost, others, beat>>

\* the store: the member's role is set or removed
SetRole(r) ==
    /\ wsRole # r
    /\ wsRole' = r
    /\ lsn' = [c \in ConnIds |-> [lsn[c] EXCEPT !.member = Notify(@)]]
    /\ UNCHANGED <<wsAcl, wsDocs, conns, got>>
    /\ UNCHANGED <<now, nMsg, seenOut, turns, bufVars, bufGhost, policyVars, outVars, outGhost, hubGhost,
                 sessGhost, others, beat>>

\* rbac.setAcl(accountId, uid, sessions)
setAcl(sessions) ==
    /\ wsAcl # sessions
    /\ wsAcl' = sessions
    /\ lsn' = [c \in ConnIds |-> [lsn[c] EXCEPT !.acl = Notify(@)]]
    /\ UNCHANGED <<wsRole, wsDocs, conns, got>>
    /\ UNCHANGED <<now, nMsg, seenOut, turns, bufVars, bufGhost, policyVars, outVars, outGhost, hubGhost,
                 sessGhost, others, beat>>

\* a doc of the sessions collection is written (docs = wsDocs), added or deleted
SessionDocsWrite(docs) ==
    /\ wsDocs' = docs
    /\ lsn' = [c \in ConnIds |-> [lsn[c] EXCEPT !.sess = Notify(@), !.leak = Notify(@)]]
    /\ UNCHANGED <<wsRole, wsAcl, conns, got>>
    /\ UNCHANGED <<now, nMsg, seenOut, turns, bufVars, bufGhost, policyVars, outVars, outGhost, hubGhost,
                 sessGhost, others, beat>>

\* ------------------------------------------------------- specifications
\* the process has started; the store holds no role, ACL or policy doc
\* the store's policy documents as an installation starts with them
InitStore ==
    /\ storeBot = [enabled |-> "undef", receiveFromBots |-> "undef", mode |-> "undef",
                   allowlist |-> <<>>, blocklist |-> <<>>]
    /\ storeWaIds = {}
    /\ storeChat = [c \in Chats |-> [root |-> "nodoc", thread |-> "nodoc"]]

\* the process after construction, but for the connections the model does not
\* follow
InitCore ==
    /\ now = StartNow
    /\ readsFail = FALSE
    /\ flipAt = 0
    /\ nMsg = 0
    /\ seenOut = FALSE
    /\ pushes = <<>>
    /\ flushCount = <<>>
    /\ processed = {}
    /\ loopStore = {}
    /\ loopView = {}
    /\ sessCache = NoEntry
    /\ selfCache = NoEntry
    /\ chatCache = [c \in Chats |-> NoEntry]
    /\ states = "none"
    /\ started = {}
    /\ watchers = {}
    /\ obs = [o \in Obs |-> Idle]
    /\ nSent = 0
    /\ epoch = <<>>
    /\ claims = <<>>
    /\ aborts = <<>>
    /\ sends = <<>>
    /\ denyStore = {}
    /\ denyView = {}
    /\ subs = [h \in Hubs |-> 0]
    /\ dropped = FALSE
    /\ dark = {}
    /\ nCalls = 0
    /\ rcpt = NoRcpt
    /\ nEvtSent = 0
    /\ nClients = 0
    /\ nInitialize = 0
    /\ readyWait = 0
    /\ lastEvt = "none"
    /\ wsRole = "none"
    /\ wsAcl = {}
    /\ wsDocs = WsSessions
    /\ conns = [c \in ConnIds |-> NoConn]
    /\ lsn = [c \in ConnIds |-> NoListeners]
    /\ got = [c \in ConnIds |-> FALSE]
    /\ beat = FALSE

\* the process after construction
InitMemory == InitCore /\ others = 0

InitRest == InitMemory /\ InitStore

\* no buffer is held
InitProcess == InitRest /\ heap = <<>> /\ map = [k \in Keys |-> 0]

\* the store holds no turn yet
Init == InitProcess /\ turns = <<>>

\* the store holds n pending turns of chat c1, flushed by an earlier run: each a
\* window of one text, opened i seconds before the start
StoredTurns(n) ==
    LET meta == MetaOfKey(<<"a1", "s1", "c1">>)
        turnOf(i) == assembleTurn(<<[ts |-> StartNow - i * 1000, type |-> "text",
                                     text |-> hola, uri |-> 0, mid |-> 0]>>, meta)
    IN  [w \in {turnOf(i).windowId : i \in 1..n} |->
            PendingDoc(turnOf(CHOOSE i \in 1..n : turnOf(i).windowId = w), {})]

InitOutbox == InitProcess /\ turns = StoredTurns(2)

InitSkip == InitProcess /\ turns = StoredTurns(MaxDocs)

\* the items a buffer may hold: short texts, the second of SMALL characters, a
\* text of SMALL + 1 characters and a voice note, each of one of three seconds
BufferedItems ==
    {[ts |-> s * 1000, type |-> "text", text |-> x, uri |-> 0, mid |-> 0] :
        s \in 1..3, x \in {hola, text14, text15}}
    \cup {[ts |-> s * 1000, type |-> "voice", text |-> <<>>, uri |-> s, mid |-> 0] : s \in 1..3}

\* the buffers of up to MaxItems items, each item marked with its place
BufferedSeqs ==
    UNION {{[i \in 1..n |-> [f[i] EXCEPT !.mid = i]] : f \in [1..n -> BufferedItems]} :
              n \in 1..MaxItems}

\* the flush of the buffer of chat c1 is due: the buffer holds its items in the
\* order of their pushes, whatever the timestamps the platform gave them
InitAssemble ==
    /\ InitRest
    /\ turns = <<>>
    /\ \E items \in BufferedSeqs :
          heap = (1 :> [key |-> <<"a1", "s1", "c1">>, items |-> items, timer |-> StartNow,
                        openedAt |-> items[1].ts, lastAt |-> items[Len(items)].ts,
                        at |-> StartNow - debounceMs, imm |-> FALSE, flushed |-> FALSE])
    /\ map = [k \in Keys |-> IF k = <<"a1", "s1", "c1">> THEN 1 ELSE 0]

NextAssemble == TimerFire(1, TRUE)

SpecAssemble == InitAssemble /\ [][NextAssemble]_vars

\* the buffer of one chat, under the default policy
NextBuffer ==
    \/ Tick
    \/ SessInit
    \/ \E shape \in MsgShapes : MessageCreate("c1", FALSE, shape, now \div 1000)
    \/ \E m \in 1..MaxMsgs : PushPolicy(m)
    \/ \E m \in 1..MaxMsgs, saved \in BOOLEAN : PushMedia(m, saved)
    \/ \E o \in 1..MaxMsgs, written \in BOOLEAN : TimerFire(o, written)

SpecBuffer == Init /\ [][NextBuffer]_vars

\* the buffer of one chat on a clock of half debounce delays
NextDebounce ==
    \/ Advance
    \/ SessInit
    \/ \E shape \in MsgShapes : MessageCreate("c1", FALSE, shape, now \div 1000)
    \/ \E m \in 1..MaxMsgs : PushPolicy(m)
    \/ \E m \in 1..MaxMsgs, saved \in BOOLEAN : PushMedia(m, saved)
    \/ \E o \in 1..MaxMsgs, written \in BOOLEAN : TimerFire(o, written)

SpecDebounce == Init /\ [][NextDebounce]_vars

\* the buffer of one chat whose text messages carry the clock's timestamp or an
\* older one
NextWindow ==
    \/ Advance
    \/ SessInit
    \/ \E shape \in {x \in MsgShapes : ~x.hasMedia}, t \in WaTimestamps :
          MessageCreate("c1", FALSE, shape, t)
    \/ \E m \in 1..MaxMsgs : PushPolicy(m)
    \/ \E o \in 1..MaxMsgs : TimerFire(o, TRUE)

SpecWindow == Init /\ [][NextWindow]_vars

\* the buffer of one chat of text messages when the store may refuse a write
NextLoss ==
    \/ Advance
    \/ SessInit
    \/ \E shape \in {x \in MsgShapes : ~x.hasMedia} :
          MessageCreate("c1", FALSE, shape, now \div 1000)
    \/ \E m \in 1..MaxMsgs : PushPolicy(m)
    \/ \E o \in 1..MaxMsgs, written \in BOOLEAN : TimerFire(o, written)

SpecLoss == Init /\ [][NextLoss]_vars

\* the buffer of one chat under the idle sweep, when a message may carry the
\* clock's timestamp or an old one
NextGc ==
    \/ Advance
    \/ SessInit
    \/ \E shape \in {x \in MsgShapes : ~x.hasMedia}, t \in WaTimestamps :
          MessageCreate("c1", FALSE, shape, t)
    \/ \E m \in 1..MaxMsgs : PushPolicy(m)
    \/ \E o \in 1..MaxMsgs : TimerFire(o, TRUE)
    \/ gcSweep

SpecGc == Init /\ [][NextGc]_vars

\* the timestamps a message may carry: none (0), the seconds of a moment five
\* seconds ago, or the milliseconds of the moment before
Stamps == {0, (now - 5000) \div 1000, now - 1}

\* the buffer of one chat whose text messages carry timestamps in either unit
NextStamp ==
    \/ Advance
    \/ SessInit
    \/ \E shape \in {x \in MsgShapes : ~x.hasMedia}, t \in Stamps :
          MessageCreate("c1", FALSE, shape, t)
    \/ \E m \in 1..MaxMsgs : PushPolicy(m)
    \/ \E o \in 1..MaxMsgs : TimerFire(o, TRUE)

SpecStamp == Init /\ [][NextStamp]_vars

\* the send requests of an operator on a session that comes and goes
NextRecipient ==
    \/ SessInit
    \/ \E type \in {"ready", "disconnected"} : ClientEvt(type)
    \/ \E to \in StringsUpTo(MaxTo), sentOk \in BOOLEAN : ApiSend(to, sentOk)

SpecRecipient == Init /\ [][NextRecipient]_vars

\* the events of a session, inbound or not, and the buffer of one chat
LifecycleTypes == {"qr", "ready", "disconnected", "auth_failure", "error"}

NextFrame ==
    \/ SessInit
    \/ \E type \in LifecycleTypes : ClientEvt(type)
    \/ SessStop
    \/ SessDestroy
    \/ \E fromMe \in BOOLEAN, shape \in MsgShapes :
          MessageCreate("c1", fromMe, shape, now \div 1000)
    \/ \E m \in 1..MaxMsgs : PushPolicy(m)
    \/ \E m \in 1..MaxMsgs : PushMedia(m, TRUE)
    \/ \E o \in 1..MaxMsgs : TimerFire(o, TRUE)

SpecFrame == Init /\ [][NextFrame]_vars

\* the loop guard: text messages of two chats, one of which becomes a self id of
\* the account, while an administrator sets receiveFromBots
NextLoop ==
    \/ Tick
    \/ SessInit
    \/ \E c \in Chats :
          MessageCreate(c, FALSE, [body |-> hola, messageType |-> chatType,
                                   hasMedia |-> FALSE], now \div 1000)
    \/ \E m \in 1..MaxMsgs : PushPolicy(m)
    \/ \E o \in 1..MaxMsgs : TimerFire(o, TRUE)
    \/ \E v \in {"true", "false"} : SetReceiveFromBots(v)
    \/ RegisterWaId("x")

SpecLoop == Init /\ [][NextLoop]_vars

\* the watchers of two hubs on one stored turn, with restarts of the process
NextOutbox ==
    \/ SessInit
    \/ \E type \in {"ready", "disconnected"} : ClientEvt(type)
    \/ \E h \in Hubs : HubStart(h)
    \/ \E w \in DOMAIN turns : AiWorker(w)
    \/ \E h \in Hubs, w \in DOMAIN turns, o \in Obs : Deliver(h, w, o)
    \/ \E o \in Obs : ObsClaim(o)
    \/ \E o \in Obs : ObsPolicy(o)
    \/ \E o \in Obs, sentOk \in BOOLEAN : ObsSend(o, sentOk)
    \/ \E o \in Obs : ObsMark(o)
    \/ Crash

SpecOutbox == InitOutbox /\ [][NextOutbox]_vars

\* one watcher on the stored turns of a chat whose botEnabled an administrator
\* sets
NextSkip ==
    \/ Tick
    \/ SessInit
    \/ ClientEvt("ready")
    \/ HubStart(1)
    \/ \E w \in DOMAIN turns : AiWorker(w)
    \/ \E w \in DOMAIN turns : Deliver(1, w, 1)
    \/ ObsClaim(1)
    \/ ObsPolicy(1)
    \/ \E sentOk \in BOOLEAN : ObsSend(1, sentOk)
    \/ ObsMark(1)
    \/ \E v \in {"true", "false"} : SetChatBotEnabled("c1", v)

SpecSkip == InitSkip /\ [][NextSkip]_vars

\* one watcher on one stored turn, which the AI worker answers in every way
InitSend == InitProcess /\ turns = StoredTurns(1)

NextSend ==
    \/ SessInit
    \/ \E type \in {"ready", "disconnected"} : ClientEvt(type)
    \/ HubStart(1)
    \/ \E w \in DOMAIN turns, resp \in Responses : AiAnswer(w, resp)
    \/ \E w \in DOMAIN turns : Deliver(1, w, 1)
    \/ ObsClaim(1)
    \/ ObsPolicy(1)
    \/ \E sentOk \in BOOLEAN : ObsSend(1, sentOk)
    \/ ObsMark(1)

SpecSend == InitSend /\ [][NextSend]_vars

\* the policy documents an administrator may have written: the session's bot
\* field with its toggles, mode and lists, another session's waId, and the
\* botEnabled of a chat's settings/__root__ and thread docs
BotSettings ==
    [enabled : {"undef", "false"}, receiveFromBots : {"undef", "true"},
     mode : {"undef", "allowlist", "blocklist"},
     allowlist : {<<>>, <<"c1">>}, blocklist : {<<>>, <<"c1">>}]

ChatDocs ==
    {[root |-> "nodoc", thread |-> "nodoc"], [root |-> "nodoc", thread |-> "false"],
     [root |-> "false", thread |-> "nodoc"], [root |-> "true", thread |-> "false"]}

InitPolicy ==
    /\ InitMemory
    /\ heap = <<>>
    /\ map = [k \in Keys |-> 0]
    /\ turns = <<>>
    /\ storeBot \in BotSettings
    /\ storeWaIds \in {{}, {"x"}}
    /\ \E d \in ChatDocs :
          storeChat = [c \in Chats |-> IF c = "c1" THEN d
                                       ELSE [root |-> "nodoc", thread |-> "nodoc"]]

\* allowProcess on the text messages of a chat, under every policy
NextPolicy ==
    \/ Tick
    \/ SessInit
    \/ MessageCreate("c1", FALSE, [body |-> hola, messageType |-> chatType,
                                   hasMedia |-> FALSE], now \div 1000)
    \/ \E m \in 1..MaxMsgs : PushPolicy(m)
    \/ \E v \in {"true", "false"} : SetChatBotEnabled("c1", v)

SpecPolicy == InitPolicy /\ [][NextPolicy]_vars

\* the watcher of one hub through the life of the session: its events in any
\* order and number, while the AI worker answers the stored turns
NextWatch ==
    \/ SessInit
    \/ \E inFs \in BOOLEAN : RestoreAllFromFs(inFs)
    \/ \E type \in LifecycleTypes : ClientEvt(type)
    \/ SessStop
    \/ SessDestroy
    \/ HubStart(1)
    \/ \E w \in DOMAIN turns : AiWorker(w)
    \/ \E w \in DOMAIN turns, o \in Obs : Deliver(1, w, o)
    \/ \E o \in Obs : ObsClaim(o)
    \/ \E o \in Obs : ObsPolicy(o)
    \/ \E o \in Obs, sentOk \in BOOLEAN : ObsSend(o, sentOk)
    \/ \E o \in Obs : ObsMark(o)

SpecWatch == InitOutbox /\ [][NextWatch]_vars

\* the policy on the messages of a chat while an administrator rewrites the
\* policy documents and the caches age
NextTtl ==
    \/ Tick
    \/ Lapse
    \/ SessInit
    \/ MessageCreate("c1", FALSE, [body |-> hola, messageType |-> chatType,
                                   hasMedia |-> FALSE], now \div 1000)
    \/ \E m \in 1..MaxMsgs : PushPolicy(m)
    \/ \E v \in {"true", "false"} : SetReceiveFromBots(v)
    \/ RegisterWaId("c1")
    \/ \E v \in {"true", "false"} : SetChatBotEnabled("c1", v)

SpecTtl == Init /\ [][NextTtl]_vars

\* the policy on the messages of two chats and on the turns of the store, while
\* the store may reject the policy's reads and a chat is disabled or enabled
NextReads ==
    \/ Tick
    \/ \E v \in BOOLEAN : ReadFault(v)
    \/ \E v \in {"true", "false"} : SetChatBotEnabled("c1", v)
    \/ SessInit
    \/ ClientEvt("ready")
    \/ HubStart(1)
    \/ \E c \in Chats :
          MessageCreate(c, FALSE, [body |-> hola, messageType |-> chatType,
                                   hasMedia |-> FALSE], now \div 1000)
    \/ \E m \in 1..MaxMsgs : PushPolicy(m)
    \/ \E w \in DOMAIN turns : AiWorker(w)
    \/ \E w \in DOMAIN turns, o \in Obs : Deliver(1, w, o)
    \/ \E o \in Obs : ObsClaim(o)
    \/ \E o \in Obs : ObsPolicy(o)
    \/ \E o \in Obs : ObsSend(o, TRUE)
    \/ \E o \in Obs : ObsMark(o)

SpecReads == InitSend /\ [][NextReads]_vars

\* the watcher of a session whose query may fail
NextSnapshot ==
    \/ SessInit
    \/ \E type \in LifecycleTypes : ClientEvt(type)
    \/ HubStart(1)
    \/ SnapError(1)
    \/ \E w \in DOMAIN turns : AiWorker(w)
    \/ \E w \in DOMAIN turns, o \in Obs : Deliver(1, w, o)
    \/ \E o \in Obs : ObsClaim(o)
    \/ \E o \in Obs : ObsPolicy(o)
    \/ \E o \in Obs, sentOk \in BOOLEAN : ObsSend(o, sentOk)
    \/ \E o \in Obs : ObsMark(o)

SpecSnapshot == InitOutbox /\ [][NextSnapshot]_vars

\* the whole flow of one chat: its messages are buffered and flushed, the AI
\* worker answers the turns and one watcher sends the answers
Next ==
    \/ Tick
    \/ SessInit
    \/ ClientEvt("ready")
    \/ HubStart(1)
    \/ \E shape \in MsgShapes : MessageCreate("c1", FALSE, shape, now \div 1000)
    \/ \E m \in 1..MaxMsgs : PushPolicy(m)
    \/ \E m \in 1..MaxMsgs : PushMedia(m, TRUE)
    \/ \E o \in 1..MaxMsgs : TimerFire(o, TRUE)
    \/ \E w \in DOMAIN turns : AiWorker(w)
    \/ \E w \in DOMAIN turns : Deliver(1, w, 1)
    \/ ObsClaim(1)
    \/ ObsPolicy(1)
    \/ \E sentOk \in BOOLEAN : ObsSend(1, sentOk)
    \/ ObsMark(1)

Spec == Init /\ [][Next]_vars

\* the subscriber hub and the store's roles, ACLs and sessions.  Connection 1
\* lives through everything; connection 2 is one whose listeners have not fired
\* yet
NextWs ==
    \/ \E c \in ConnIds : WsUpgrade(c)
    \/ \E c \in ConnIds : WsHandleUpgrade(c)
    \/ MemberSnap(1)
    \/ AclSnap(1)
    \/ \E which \in {"sess", "leak"} : SessionsSnap(1, which)
    \/ \E f \in SubFilters : Subscribe(1, f)
    \/ WsPeerClose(1)
    \/ \E c \in ConnIds : WsClose(c)
    \/ \E evt \in WsEvents : wsPush(evt)
    \/ \E r \in {"none", "Administrator", "Agent"} : SetRole(r)
    \/ \E ss \in {{}, {"s1"}} : setAcl(ss)
    \/ SessionDocsWrite(WsSessions)

SpecWs == Init /\ [][NextWs]_vars

\* the connections of a member under the heartbeat
NextBeat ==
    \/ \E r \in {"Administrator", "Agent"} : SetRole(r)
    \/ \E c \in ConnIds : WsUpgrade(c)
    \/ \E c \in ConnIds : WsHandleUpgrade(c)
    \/ \E c \in ConnIds : MemberSnap(c)
    \/ \E c \in ConnIds : AclSnap(c)
    \/ \E c \in ConnIds : SessionsSnap(c, "sess")
    \/ \E ss \in {{}, {"s1"}} : setAcl(ss)
    \/ \E c \in ConnIds : WsPeerClose(c)
    \/ \E c \in ConnIds : WsClose(c)
    \/ \E c \in ConnIds : Pong(c)
    \/ Heartbeat

SpecBeat == Init /\ [][NextBeat]_vars

\* the hub when all but one of the connections it admits are established
InitCap ==
    /\ InitCore /\ InitStore
    /\ heap = <<>> /\ map = [k \in Keys |-> 0]
    /\ turns = <<>>
    /\ others = maxConnections - 1

SpecCap == InitCap /\ [][NextWs]_vars

\* ------------------------------------------------------------ the claims
\* the observers that hold the claim of doc w, among the callbacks ob
Holders(ob, w) == {o \in Obs : ob[o].doc = w /\ ob[o].pc \in {"policy", "send", "mark"}}

\* the entries of f that are of doc w
ForDoc(f, w) == [d \in {x \in DOMAIN f : x[1] = w} |-> f[d]]

\* C1: of the observers of a ready turn one at most claims it, only the one that
\* claimed sends, it sends once, and a delivered turn carries the id of that send.
C1_OneClaimOneSend ==
    /\ \A d \in DOMAIN claims : claims[d] <= 1
    /\ \A d \in DOMAIN sends : sends[d] <= 1 /\ d \in DOMAIN claims
    /\ \A w \in DOMAIN turns : Cardinality(Holders(obs, w)) <= 1
    /\ \A w \in DOMAIN turns :
          turns[w].status = "delivered"
             => /\ turns[w].waMessageId # 0
                /\ <<w, epoch[w]>> \in DOMAIN sends
    /\ nSent <= Cardinality(DOMAIN claims)

\* a turn was delivered by the observer that claimed it after another observer
\* of the same ready turn gave up at its claim
C1_Witness ==
    \E w \in DOMAIN turns :
        /\ turns[w].status = "delivered"
        /\ <<w, epoch[w]>> \in DOMAIN aborts
        /\ claims[<<w, epoch[w]>>] = 1

\* the edges of a turn's status
Edges ==
    {<<"pending", "ready">>, <<"ready", "sending">>, <<"sending", "delivered">>,
     <<"sending", "error">>, <<"sending", "skipped">>}

\* C2: every change of a turn's status is along an edge, so a turn that is
\* delivered, error or skipped keeps its status; and a waMessageId that is set
\* is never changed.
C2_StatusEdges ==
    [][\A w \in DOMAIN turns :
          /\ turns'[w].status # turns[w].status
                => <<turns[w].status, turns'[w].status>> \in Edges
          /\ turns[w].waMessageId # 0
                => turns'[w].waMessageId = turns[w].waMessageId]_vars

\* C3: while a turn is in sending no claim of it succeeds; and when no observer
\* holds its claim (the claimant is gone), nothing is written to it, nothing is
\* sent for it and no observer comes to hold it.
C3_SendingNotReclaimed ==
    [][\A w \in DOMAIN turns :
          turns[w].status = "sending"
             => /\ ForDoc(claims', w) = ForDoc(claims, w)
                /\ Holders(obs, w) = {}
                      => /\ turns'[w] = turns[w]
                         /\ ForDoc(sends', w) = ForDoc(sends, w)
                         /\ Holders(obs', w) = {}]_vars

\* a turn is in sending, its claimant is gone, and the session is ready again
\* with a watcher on it
C3_Witness ==
    \E w \in DOMAIN turns :
        /\ turns[w].status = "sending"
        /\ Holders(obs, w) = {}
        /\ states = "ready"
        /\ watchers # {}

\* what C5 says of the claimed turn d = <<windowId, epoch>>: it went from sending
\* to skipped, carries no waMessageId and nothing was sent for it
Skipped(d) ==
    /\ d \notin DOMAIN sends
    /\ d \in DOMAIN claims
    /\ turns[d[1]].status = "skipped"
    /\ turns[d[1]].waMessageId = 0

C4_OneFlushPerWindow == \A w \in DOMAIN flushCount : flushCount[w] <= 1

\* message m left no trace: _pushAllowed did not run for it, no buffer holds an
\* item of it and no turn document was assembled from it
NoTrace(m) ==
    /\ m \notin processed
    /\ \A o \in DOMAIN heap : \A i \in 1..Len(heap[o].items) : heap[o].items[i].mid # m
    /\ \A w \in DOMAIN turns : m \notin turns[w].srcs

EmitsNonInbound ==
    \/ \E c \in Chats, shape \in MsgShapes, t \in WaTimestamps :
          MessageCreate(c, TRUE, shape, t)
    \/ \E type \in LifecycleTypes : ClientEvt(type)
    \/ SessStop
    \/ SessDestroy
    \/ \E o \in Obs : ObsSend(o, TRUE) /\ nSent' # nSent

\* C7: an event with fromMe = true, or whose type is not message, starts no
\* push, creates or changes no buffer, arms no timer and writes no turn.
C7_NonInboundLeavesBuffers ==
    [][EmitsNonInbound => UNCHANGED <<nMsg, pushes, heap, map, turns, flushCount>>]_vars

\* such an event was emitted while a buffer with an armed timer was held
C7_Witness == seenOut /\ \E o \in DOMAIN heap : heap[o].timer # NoTimer

\* the filter of a connection matches an event: each of types, chats and fromMe
\* is not given, or is met by the event
FilterMatches(x, evt) ==
    /\ (Len(x.types) = 0 \/ InList(x.types, evt.type))
    /\ (Len(x.chats) = 0 \/ InList(x.chats, evt.chatId))
    /\ (x.fromMe = "undef" \/ evt.fromMe = x.fromMe)

Eligible(c, evt) ==
    /\ conns[c].state = "open"
    /\ evt.accountId = conns[c].accountId
    /\ evt.sessionId \in conns[c].allowed
    /\ FilterMatches(conns[c].extra, evt)

\* C8: an event the hub pushes is sent to exactly the open connections whose
\* account is the event's, whose allowed set holds the event's session and whose
\* filter matches; so none gets an event of another account or of a session
\* outside its allowed set.
C8_Recipients ==
    [][\A evt \in WsEvents :
          wsPush(evt) => \A c \in ConnIds : got'[c] <=> Eligible(c, evt)]_vars

\* an event was sent to one open connection and withheld from the other one
C8_Witness ==
    /\ got[1] /\ ~got[2]
    /\ conns[1].state = "open" /\ conns[2].state = "open"

\* every listener of connection c has delivered its last snapshot
Quiet(c) ==
    /\ lsn[c].member = "idle"
    /\ "pending" \notin {lsn[c].acl, lsn[c].sess, lsn[c].leak}

\* C9: once the subscribes and the live updates of a connection are through, its
\* allowed set is within the sessions the store grants the user by role and ACL.
C9_AllowedWithinGrant ==
    \A c \in ConnIds :
        conns[c].state = "open" /\ Quiet(c)
            => conns[c].allowed \subseteq allowedSessions.sessions

\* a step in which a listener of connection c calls the hub's callback
LiveUpdate(c) ==
    \/ MemberSnap(c) /\ wsRole = "none"
    \/ AclSnap(c)
    \/ \E which \in {"sess", "leak"} : SessionsSnap(c, which)

\* C10: a live update that leaves the allowed set of an open connection empty
\* closes it with code 4403 and reason 'ACL empty', and no event is sent on a
\* connection closed so.
C10_AclEmptyCloses ==
    [][\A c \in ConnIds :
          /\ (LiveUpdate(c) /\ conns[c].state = "open" /\ conns'[c].allowed = {})
                => /\ conns'[c].state = "closing"
                   /\ conns'[c].code = CloseAclEmpty
                   /\ conns'[c].reason = "ACL empty"
          /\ (conns[c].code = CloseAclEmpty
                /\ (got'[c] # got[c] \/ \E evt \in WsEvents : wsPush(evt)))
                => ~got'[c]]_vars

\* a connection that was being sent events is closing with 4403, its set empty
C10_Witness ==
    \E c \in ConnIds :
        /\ conns[c].state = "closing"
        /\ conns[c].code = CloseAclEmpty
        /\ conns[c].allowed = {}
        /\ got[c]

\* C11: once the member listener has seen the member's role, every update that
\* subscribeAllowed delivers carries the sessions of that role: the ACL doc's for
\* a role that is not Administrator, none for no role.
C11_UpdatesFollowRole ==
    [][\A c \in ConnIds :
          (LiveUpdate(c) /\ lsn'[c].member = "idle")
              => conns'[c].allowed = allowedSessions.sessions]_vars

\* the state objects of key k whose flush timer is pending
Armed(k) == {o \in DOMAIN heap : heap[o].key = k /\ heap[o].timer # NoTimer}

\* C12: each buffer key has at most one pending flush timer.
C12_OneTimerPerKey == \A k \in Keys : Cardinality(Armed(k)) <= 1

\* C13: a turn is written for a key only when debounceMs has elapsed since the
\* last accepted push of the key, unless that push carried a finalizer phrase.
C13_NoFlushBeforeDebounce ==
    [][\A k \in Keys :
          (map[k] # 0 /\ map'[k] = 0 /\ ~heap[map[k]].imm)
              => now >= heap[map[k]].at + debounceMs]_vars

\* the messages whose items wait in a state object of key k no flush has taken
PendingOf(k) ==
    UNION {{heap[o].items[i].mid : i \in 1..Len(heap[o].items)} :
              o \in {x \in DOMAIN heap : heap[x].key = k /\ ~heap[x].flushed}}

\* the windowId state object o would be flushed under
WindowOf(o) == assembleTurn(heap[o].items, MetaOfKey(heap[o].key)).windowId

\* C14: the timer a push with a finalizer phrase arms is due at once, and the
\* flush it starts writes one pending turn, which holds the items of every
\* message buffered for the key and not flushed before.
C14_FinalizerFlushesAll ==
    [][\A o \in DOMAIN heap :
          LET k == heap[o].key
          IN  (heap[o].imm /\ TimerFire(o, TRUE) /\ map[k] # 0 /\ map'[k] = 0)
                 => /\ heap[o].timer = heap[o].at
                    /\ turns'[WindowOf(map[k])].status = "pending"
                    /\ PendingOf(k) \subseteq turns'[WindowOf(map[k])].srcs
                    /\ \A w \in DOMAIN turns' :
                          w # WindowOf(map[k]) => w \in DOMAIN turns /\ turns'[w] = turns[w]]_vars

\* C15: the windowId a buffer that holds an item would be flushed under stays
\* the same while the buffer takes further items.
C15_WindowIdStable ==
    [][\A o \in DOMAIN heap :
          (heap[o].items # <<>> /\ o \in DOMAIN heap' /\ ~heap'[o].flushed)
              => assembleTurn(heap'[o].items, MetaOfKey(heap'[o].key)).windowId
                    = WindowOf(o)]_vars

\* C16: the items of every turn are in the order of their timestamps.
C16_ItemsOrdered ==
    \A w \in DOMAIN turns :
        \A i \in 1..(Len(turns[w].items) - 1) :
            turns[w].items[i].ts <= turns[w].items[i + 1].ts

\* a turn holds a merged text and after it the voice note that was pushed first
C16_Witness ==
    \E w \in DOMAIN turns :
        LET its == turns[w].items
        IN  \E i, j \in 1..Len(its) :
               /\ i < j
               /\ its[i].type = "text" /\ includes(its[i].text, <<" ">>)
               /\ its[j].type = "voice" /\ its[j].mid = 1

\* the reference of C17.  A stable sort by ts: the items of the smallest ts in
\* their order, then those of the next one
RECURSIVE StableByTs(_, _)
StableByTs(items, tss) ==
    IF tss = {} THEN <<>>
    ELSE LET least == CHOOSE x \in tss : \A y \in tss : x <= y
             sameTs(it) == it.ts = least
         IN  SelectSeq(items, sameTs) \o StableByTs(items, tss \ {least})

\* what C17 compares of an item: its type, its text, its media
Shape(it) == [type |-> it.type, text |-> it.text, uri |-> it.uri]

\* the merge of sorted items: run is the text of the run of short texts so far
RECURSIVE RefMerge(_, _)
RefMerge(items, run) ==
    LET runItem == IF run = <<>> THEN <<>> ELSE <<[type |-> "text", text |-> run, uri |-> 0]>>
    IN  IF items = <<>> THEN runItem
        ELSE IF Head(items).type = "text" /\ Len(Head(items).text) <= SMALL
        THEN RefMerge(Tail(items),
                      IF run = <<>> THEN Head(items).text
                      ELSE run \o <<" ">> \o Head(items).text)
        ELSE runItem \o <<Shape(Head(items))>> \o RefMerge(Tail(items), <<>>)

\* C17: the items of the turn a flush writes are the reference merge of the
\* buffer's items: sorted by ts in a stable way, each run of texts of at most
\* SMALL characters joined by single spaces into one text, each longer text on
\* its own, each voice item ending the run and passed on as it is.
C17_ReferenceMerge ==
    [][\A o \in DOMAIN heap :
          (map[heap[o].key] = o /\ heap[o].items # <<>> /\ TimerFire(o, TRUE))
              => LET in == heap[o].items
                     out == turns'[WindowOf(o)].items
                 IN  /\ [i \in 1..Len(out) |-> Shape(out[i])]
                           = RefMerge(StableByTs(in, {in[i].ts : i \in 1..Len(in)}), <<>>)
                     /\ \A i \in 1..Len(out) :
                           out[i].type = "voice" => \E n \in 1..Len(in) : in[n] = out[i]]_vars

\* a turn of a merged text and, after it, a text of more than SMALL characters
C17_Witness ==
    \E w \in DOMAIN turns :
        /\ Len(turns[w].items) = 2
        /\ includes(turns[w].items[1].text, <<" ">>)
        /\ turns[w].items[2].text = text15

\* the send C18 claims for a response, with the response's text as the caption
\* of a voice note
ClaimedSend(response) ==
    IF response.modality = "voice" /\ response.url
    THEN [fn |-> "sendMedia", body |-> response.text, voice |-> TRUE]
    ELSE [fn |-> "sendText",
          body |-> IF trim(response.text) # <<>> THEN trim(response.text) ELSE mensajeListo,
          voice |-> FALSE]

\* the same with the trimmed text as the caption
TrimmedSend(response) ==
    IF response.modality = "voice" /\ response.url
    THEN [ClaimedSend(response) EXCEPT !.body = trim(response.text)]
    ELSE ClaimedSend(response)

\* the watcher's send for a claimed turn is the send want(response), the only
\* one for the turn, and the turn is then delivered with the id of that send
SendsAs(want(_)) ==
    \A o \in Obs :
        LET w == obs[o].doc
        IN  /\ (obs[o].pc = "send" /\ obs'[o].pc = "mark")
                  => /\ obs'[o].sent = want(turns[w].response)
                     /\ sends'[<<w, obs[o].ep>>] = 1
                     /\ nSent' = nSent + 1
            /\ (obs[o].pc = "mark" /\ obs'[o].pc = "idle")
                  => /\ turns'[w].status = "delivered"
                     /\ turns'[w].waMessageId = obs[o].wa
                     /\ UNCHANGED <<nSent, sends>>

C19_SendFailureIsFinal ==
    [][\A w \in DOMAIN turns :
          /\ (\E o \in Obs : /\ obs[o].pc = "send" /\ obs[o].doc = w
                              /\ obs'[o].pc = "idle" /\ started' = started)
                => /\ turns'[w].status = "error"
                   /\ turns'[w].error = "send"
                   /\ turns'[w].waMessageId = 0
                   /\ UNCHANGED <<nSent, sends>>
          /\ (turns[w].status = "error" /\ turns[w].error = "send")
                => /\ turns[w].waMessageId = 0
                   /\ turns'[w] = turns[w]
                   /\ ForDoc(claims', w) = ForDoc(claims, w)
                   /\ ForDoc(sends', w) = ForDoc(sends, w)
                   /\ Holders(obs', w) = {}]_vars

\* a turn is in error after a failed send, an observer that was handed it while
\* it was ready has since been refused the claim, and the session is ready with
\* a watcher on it
C19_Witness ==
    \E w \in DOMAIN turns :
        /\ turns[w].status = "error"
        /\ turns[w].error = "send"
        /\ <<w, epoch[w]>> \in DOMAIN aborts
        /\ <<w, epoch[w]>> \notin DOMAIN sends
        /\ states = "ready"
        /\ watchers # {}

C21_SentPerSend ==
    /\ [](nEvtSent = nSent /\ nSent <= nCalls)
    /\ [][\A o \in Obs :
             (/\ obs[o].pc = "send" /\ obs'[o].pc # "send"
              /\ ~(HasClient /\ states = "ready"))
                => /\ UNCHANGED <<nCalls, nSent, nEvtSent>>
                   /\ turns'[obs[o].doc].status = "error"
                   /\ turns'[obs[o].doc].error = "send"]_vars

\* a send succeeded, with its sent event, and another failed without a platform
\* call on the session that had been stopped
C21_Witness ==
    /\ nCalls = 1
    /\ nSent = 1
    /\ nEvtSent = 1
    /\ states = "stopped"
    /\ \E w \in DOMAIN turns : turns[w].status = "error" /\ turns[w].error = "send"

\* C22: whatever the order of the init calls of the session (POST /sessions/init
\* and restoreAllFromFs), at most one platform client of it exists, initialized
\* once; while a client exists no step makes a client, initializes one or sets
\* the status to starting.
C22_OneClientPerKey ==
    /\ [](/\ nClients <= 1
          /\ HasClient => nClients = 1 /\ nInitialize = 1)
    /\ [][HasClient => /\ nClients' <= nClients
                       /\ nInitialize' <= nInitialize
                       /\ states' = "starting" => states = "starting"]_vars

\* the session, stopped or destroyed after a turn was delivered, has been
\* initialized again: it holds its one client, initialized once
C22_Witness ==
    /\ states = "starting"
    /\ nClients = 1
    /\ nInitialize = 1
    /\ dropped
    /\ \E w \in DOMAIN turns : turns[w].status = "delivered"

\* C23: in every policy state allowSend answers as allowProcess does for a sender
\* that is none of the account's own WA ids, and a session that is disabled in
\* the session view is denied by both.
C23_SendAsProcess ==
    \A c \in Chats, s \in Chats \cup {""} :
        /\ (s \notin storeWaIds /\ s \notin _getSelfWaIds(selfCache).waIds)
              => allowProcess(c, s).allow = allowSend(c).allow
        /\ ~_getSession(sessCache).data.enabled
              => ~allowProcess(c, s).allow /\ ~allowSend(c).allow

\* allowProcess has answered for a message of chat c1, no self id, which the
\* enabled session's blocklist excludes: both deny c1 and both allow chat x
C23_Witness ==
    /\ sessCache # NoEntry
    /\ "c1" \notin storeWaIds
    /\ _getSession(sessCache).data.enabled
    /\ ModeDenies(_getSession(sessCache).data, "c1")
    /\ ~allowSend("c1").allow
    /\ storeWaIds = {} /\ allowSend("x").allow /\ allowProcess("x", "x").allow

\* the item timestamp C24 states for a message whose waTimestamp is w (0: none)
StatedTs(w) == IF w = 0 THEN now ELSE IF w < TsThreshold THEN w * 1000 ELSE w

\* C24: the items a push buffers carry waTimestamp * 1000 when waTimestamp is
\* below the threshold, waTimestamp itself otherwise and the clock when there is
\* none; and every ts, openedAt and closedAt of a stored turn is a time in
\* milliseconds (at or above the threshold).
C24_TsInMilliseconds ==
    /\ [](\A w \in DOMAIN turns :
            /\ turns[w].openedAt >= TsThreshold
            /\ turns[w].closedAt >= TsThreshold
            /\ \A i \in 1..Len(turns[w].items) : turns[w].items[i].ts >= TsThreshold)
    /\ [][\A m \in DOMAIN pushes :
             (pushes[m].pc = "policy" /\ m \in processed' \ processed)
                => \A o \in DOMAIN heap' :
                      /\ \A i \in 1..Len(heap'[o].items) :
                            heap'[o].items[i].mid = m
                               => heap'[o].items[i].ts = StatedTs(pushes[m].evt.waTimestamp)
                      /\ o \notin DOMAIN heap
                            => heap'[o].openedAt = StatedTs(pushes[m].evt.waTimestamp)]_vars

\* a stored turn opened by a message stamped in seconds and closed by one
\* stamped in milliseconds
C24_Witness ==
    \E w \in DOMAIN turns :
        /\ turns[w].openedAt = StartNow - 5000
        /\ turns[w].closedAt = StartNow - 1

\* what C25 says of a recipient to that normalizes to chatId, not null, with
\* through(to) as what passes through
NormalizesAs(to, chatId, through(_)) ==
    chatId # NullId
       => /\ normalizeChatId(chatId) = chatId
          /\ includes(to, <<"@">>) => chatId = through(to)
          /\ ~includes(to, <<"@">>) => chatId = Digits(to) \o atCUs

Itself(to) == to

Halts == states' # states /\ states' \in {"stopped", "none"}

\* C26: when the session is stopped or destroyed its buffers are removed and
\* their flush timers cancelled, and no turn of it is written while it is
\* stopped or destroyed.
C26_StopDropsBuffers ==
    /\ [][Halts => /\ \A k \in Keys : map'[k] = 0
                   /\ \A o \in DOMAIN heap' : heap'[o].timer = NoTimer]_vars
    /\ [][(states \in {"stopped", "none"} /\ states' = states) => turns' = turns]_vars

\* C27: when the client reports an error the status becomes error and the
\* outbox subscription of the session is dropped: no hub listens and no turn is
\* claimed while the session is in error.
C27_ErrorDropsSubscription ==
    /\ [](states = "error" => \A h \in Hubs : subs[h] = 0)
    /\ [][states = "error"
            => \A w \in DOMAIN turns :
                  turns'[w].status = "sending" => turns[w].status = "sending"]_vars

\* C28: a snapshot error tears the subscription of the hub down (its entry
\* leaves the map), and the next ready event of the session leaves every
\* started hub with a listener.
C28_SnapshotErrorResubscribes ==
    /\ [][\A h \in Hubs : (subs'[h] < subs[h] /\ states' = states) => h \notin watchers']_vars
    /\ [][(states # "ready" /\ states' = "ready") => \A h \in started : subs'[h] > 0]_vars

\* the messages whose items the state objects of h hold
BufferedIn(h) == UNION {{h[o].items[i].mid : i \in 1..Len(h[o].items)} : o \in DOMAIN h}

\* the timer of key k's buffer has fired and nothing was written
FlushFailed(k) ==
    /\ map[k] # 0
    /\ heap[map[k]].items # <<>>
    /\ pushes' = pushes
    /\ heap' # heap
    /\ flushCount' = flushCount

C29_ReadFailureDenies ==
    /\ [](\A c \in Chats, s \in Chats \cup {""} :
            /\ allowProcess(c, s).read # "ok" => ~allowProcess(c, s).allow
            /\ allowSend(c).read # "ok" => ~allowSend(c).allow)
    /\ [][\A m \in DOMAIN pushes :
            (/\ pushes[m].pc = "policy"
             /\ m \notin DOMAIN pushes' \/ pushes'[m].pc # "policy"
             /\ allowProcess(pushes[m].evt.chatId, pushes[m].evt.chatId).read # "ok")
               => m \notin processed']_vars
    /\ [][\A o \in Obs :
            (/\ obs[o].pc = "policy"
             /\ obs'[o].pc # "policy"
             /\ allowSend(turns[obs[o].doc].meta.chatId).read # "ok")
               => obs'[o].pc # "send"]_vars

\* C31: the established connections never exceed maxConnections, whatever
\* upgrade requests are in flight.
C31_ConnectionCap == size <= maxConnections

C33_ResumedPushOpensFresh ==
    /\ [][\A k \in Keys :
            (map[k] = 0 /\ map'[k] # 0) => ~heap'[map'[k]].flushed]_vars
    /\ [](\A m \in processed :
            Cardinality({w \in DOMAIN turns : m \in turns[w].srcs}) <= 1)

\* C34: every item of a buffer has its ts between the buffer's openedAt and
\* lastAt, and no turn document is written from a buffer without items.
C34_ItemsWithinWindow ==
    /\ \A k \in Keys :
          map[k] # 0
             => \A i \in 1..Len(heap[map[k]].items) :
                   /\ heap[map[k]].openedAt <= heap[map[k]].items[i].ts
                   /\ heap[map[k]].items[i].ts <= heap[map[k]].lastAt
    /\ \A w \in DOMAIN turns : turns[w].items # <<>>

\* C35: in allowlist mode a chat that is not in the allowlist, and in
\* blocklist mode a chat that is in the blocklist, is denied by allowProcess and
\* by allowSend, whatever the lists hold.
C35_ModeFilterDenies ==
    \A c \in Chats, s \in Chats \cup {""} :
        LET d == _getSession(sessCache).data
        IN  (\/ d.mode = "allowlist" /\ ~InList(d.allowlist, c)
             \/ d.mode = "blocklist" /\ InList(d.blocklist, c))
               => ~allowProcess(c, s).allow /\ ~allowSend(c).allow

\* the decisions as the store's documents give them
StoreAllowsSend(c) ==
    LET d == SessionData(storeBot)
    IN  d.enabled /\ ~ModeDenies(d, c) /\ ChatData(storeChat[c]).botEnabled # "false"

StoreAllows(c, s) ==
    LET d == SessionData(storeBot)
    IN  /\ StoreAllowsSend(c)
        /\ ~(~d.receiveFromBots /\ s # "" /\ s \in storeWaIds)

Aged(entry) == entry # NoEntry /\ now - entry.at >= ttlMs

\* C36: a lookup whose cache entry is ttlMs old or older answers with the
\* store's document, and once more than ttlMs have passed since the last write
\* of a policy document every decision is the one the store's documents give.
C36_TtlBoundsStaleness ==
    /\ Aged(sessCache) => _getSession(sessCache).data = SessionData(storeBot)
    /\ Aged(selfCache) => _getSelfWaIds(selfCache).waIds = storeWaIds
    /\ \A c \in Chats :
          Aged(chatCache[c]) => _getChat(chatCache[c], c).data = ChatData(storeChat[c])
    /\ now - flipAt > ttlMs
          => \A c \in Chats, s \in Chats \cup {""} :
                /\ allowProcess(c, s).allow = StoreAllows(c, s)
                /\ allowSend(c).allow = StoreAllowsSend(c)

\* the session view was cached, bot.receiveFromBots was set after that, and the
\* entry has reached the age of ttlMs
C36_Witness ==
    /\ sessCache # NoEntry
    /\ sessCache.data # SessionData(storeBot)
    /\ flipAt >= sessCache.at
    /\ now - sessCache.at = ttlMs

\* C37: a buffer that holds items leaves the map only by a flush that writes
\* them: the idle sweep deletes no buffer with items and a pending timer, and
\* every message that was buffered is in a buffer or in a turn document.
C37_NoItemDiscarded ==
    /\ [][\A k \in Keys :
            (/\ map[k] # 0 /\ map'[k] = 0
             /\ heap[map[k]].items # <<>>
             /\ heap[map[k]].timer # NoTimer)
               => flushCount' # flushCount]_vars
    /\ [](\A m \in processed :
            \/ m \in BufferedIn(heap)
            \/ \E w \in DOMAIN turns : m \in turns[w].srcs)

\* C38: a turn in sending gets its terminal status from the callback that
\* claimed it and from nothing else, so while it is in sending a callback in
\* flight holds it; the turn is never left in sending with no callback to write
\* delivered, skipped or error.
C38_ClaimedTurnIsHeld ==
    \A w \in DOMAIN turns :
        turns[w].status = "sending"
           => \E o \in Obs : obs[o].doc = w /\ obs[o].pc \in {"policy", "send", "mark"}

\* the session with the ready handler in its two halves
NextReady ==
    \/ SessInit
    \/ \E type \in {"qr", "ready", "disconnected", "auth_failure", "error"} : ClientEvt(type)
    \/ ReadyBegin
    \/ \E ok \in BOOLEAN : ReadySettle(ok)
    \/ SessStop
    \/ Tick

SpecReady == Init /\ [][NextReady]_vars

\* C39: while the last lifecycle event of the client is disconnected,
\* auth_failure or error, the status of the session is not ready, and after a
\* disconnected event that no later event of the client followed, the last
\* lifecycle event emitted is not ready (the session counts as dropped).
C39_StatusFollowsClient ==
    /\ lastEvt \in {"disconnected", "auth_failure", "error"} => states # "ready"
    /\ lastEvt = "disconnected" => dropped

\* C40: on an open connection whose client has narrowed the sessions by a
\* subscribe message, the allowed set holds no session outside the list of
\* that message, so that canSee passes no event of another session.
C40_NarrowingStays ==
    \A c \in ConnIds :
        conns[c].state = "open" /\ Len(conns[c].asked) > 0
           => conns[c].allowed \subseteq {conns[c].asked[i] : i \in 1..Len(conns[c].asked)}

====
